---- MODULE Spec2Model ----
(***************************************************************************)
(* Model of the pricing engine of better-ccusage: the PricingFetcher class *)
(* (cache, loader, three-phase model resolution, cost calculation).        *)
(*                                                                         *)
(* Strings are sequences of one-character strings, so that toLowerCase,    *)
(* includes, startsWith and endsWith are computed and not assumed.         *)
(* An optional value (undefined / null in the source) is None or Some(v).  *)
(***************************************************************************)
EXTENDS Integers, Sequences, FiniteSets, TLC

None == <<>>
Some(v) == <<v>>
IsSome(o) == o # <<>>
Get(o) == o[1]

(***************************************************************************)
(* String primitives of the JavaScript runtime                             *)
(***************************************************************************)
\* String.prototype.toLowerCase maps every capital letter of Unicode; the
\* alphabet here is Basic Latin and the Latin-1 Supplement, whose capitals each
\* map to one lower-case letter.
UpperChars ==
  <<"A","B","C","D","E","F","G","H","I","J","K","L","M",
    "N","O","P","Q","R","S","T","U","V","W","X","Y","Z",
    "À","Á","Â","Ã","Ä","Å","Æ","Ç","È","É","Ê","Ë","Ì","Í","Î","Ï",
    "Ð","Ñ","Ò","Ó","Ô","Õ","Ö","Ø","Ù","Ú","Û","Ü","Ý","Þ">>
LowerChars ==
  <<"a","b","c","d","e","f","g","h","i","j","k","l","m",
    "n","o","p","q","r","s","t","u","v","w","x","y","z",
    "à","á","â","ã","ä","å","æ","ç","è","é","ê","ë","ì","í","î","ï",
    "ð","ñ","ò","ó","ô","õ","ö","ø","ù","ú","û","ü","ý","þ">>

LowerChar(c) ==
  IF \E i \in DOMAIN UpperChars : UpperChars[i] = c
  THEN LowerChars[CHOOSE i \in DOMAIN UpperChars : UpperChars[i] = c]
  ELSE c

toLowerCase(s) == [i \in 1..Len(s) |-> LowerChar(s[i])]

startsWith(s, t) == Len(t) <= Len(s) /\ SubSeq(s, 1, Len(t)) = t

endsWith(s, t) == Len(t) <= Len(s) /\ SubSeq(s, Len(s) - Len(t) + 1, Len(s)) = t

includes(s, t) ==
  \E i \in 0..(Len(s) - Len(t)) : SubSeq(s, i + 1, i + Len(t)) = t

Slash == <<"/">>
Air == <<"a","i","r">>
ZaiSlash == <<"z","a","i","/">>

(***************************************************************************)
(* The dataset: a Map, modelled as a sequence of entries with distinct     *)
(* keys in insertion order.                                                *)
(***************************************************************************)
MapKeys(pricing) == {pricing[i].key : i \in 1..Len(pricing)}

MapGet(pricing, key) ==
  IF \E i \in 1..Len(pricing) : pricing[i].key = key
  THEN Some(pricing[CHOOSE i \in 1..Len(pricing) : pricing[i].key = key].value)
  ELSE None

(***************************************************************************)
(* createMatchingCandidates: the raw name, then prefix + name for each     *)
(* configured prefix, duplicates dropped (a Set keeps first insertion).    *)
(***************************************************************************)
RECURSIVE AddAll(_, _)
AddAll(acc, rest) ==
  IF rest = <<>> THEN acc
  ELSE IF \E i \in 1..Len(acc) : acc[i] = Head(rest)
       THEN AddAll(acc, Tail(rest))
       ELSE AddAll(Append(acc, Head(rest)), Tail(rest))

\* Mutant: the prefixed candidates are tried before the raw name.
createMatchingCandidates_PrefixedFirst(modelName, providerPrefixes) ==
  AddAll([i \in 1..Len(providerPrefixes) |-> providerPrefixes[i] \o modelName],
         <<modelName>>)

createMatchingCandidates(modelName, providerPrefixes) ==
  AddAll(<<modelName>>,
         [i \in 1..Len(providerPrefixes) |-> providerPrefixes[i] \o modelName])

\* Phase 1: the first candidate that is a key of the dataset.
RECURSIVE DirectMatch(_, _)
DirectMatch(pricing, candidates) ==
  IF candidates = <<>> THEN None
  ELSE IF IsSome(MapGet(pricing, Head(candidates)))
       THEN MapGet(pricing, Head(candidates))
       ELSE DirectMatch(pricing, Tail(candidates))

\* Mutant: the key is compared as it is, not lower-cased.
SuffixMatches_CaseSensitive(key, lower) ==
  key = lower \/ endsWith(key, Slash \o lower)

\* Phase 2: the first key whose lower-cased form equals lower or ends with "/" + lower.
SuffixMatches(key, lower) ==
  LET comparison == toLowerCase(key)
  IN comparison = lower \/ endsWith(comparison, Slash \o lower)

\* The scan of phase 2 from entry i on: the first matching entry's record.
RECURSIVE SuffixMatchFrom(_, _, _)
SuffixMatchFrom(pricing, lower, i) ==
  IF i > Len(pricing) THEN None
  ELSE IF SuffixMatches(pricing[i].key, lower) THEN Some(pricing[i].value)
  ELSE SuffixMatchFrom(pricing, lower, i + 1)

SuffixMatch(pricing, lower) == SuffixMatchFrom(pricing, lower, 1)

\* Mutant: a key contained in the name scores nothing.
Score_NoReverse(key, lower) ==
  LET comparison == toLowerCase(key)
  IN IF includes(comparison, lower)
     THEN IF includes(comparison, lower \o Slash) \/ endsWith(comparison, Slash \o lower)
          THEN 100
          ELSE IF ~includes(comparison, Air)
               THEN IF startsWith(comparison, ZaiSlash) THEN 95 ELSE 90
               ELSE 50
     ELSE 0

\* Phase 3: the score of one key.
Score(key, lower) ==
  LET comparison == toLowerCase(key)
  IN IF includes(comparison, lower)
     THEN IF includes(comparison, lower \o Slash) \/ endsWith(comparison, Slash \o lower)
          THEN 100
          ELSE IF includes(comparison, lower) /\ ~includes(comparison, Air)
               THEN IF startsWith(comparison, ZaiSlash) THEN 95 ELSE 90
               ELSE IF includes(comparison, lower) THEN 50 ELSE 0
     ELSE IF includes(lower, comparison) THEN 10 ELSE 0

\* Mutant: a later key with an equal score replaces the best.
Replaces_OrEqual(score, bestMatchScore) == score >= bestMatchScore

\* score > bestMatchScore: a later key replaces the best only when strictly greater.
Replaces(score, bestMatchScore) == score > bestMatchScore

\* The scan of phase 3: best = [match, score] after the entries from index i on.
RECURSIVE BestMatchFrom(_, _, _, _)
BestMatchFrom(pricing, lower, i, best) ==
  IF i > Len(pricing) THEN best
  ELSE LET score == Score(pricing[i].key, lower)
       IN BestMatchFrom(pricing, lower, i + 1,
            IF Replaces(score, best.score)
            THEN [match |-> Some(pricing[i].value), score |-> score]
            ELSE best)

\* Mutant: when no key scores, a default record is returned.
FuzzyMatch_DefaultRecord(pricing, lower) ==
  IF BestMatchFrom(pricing, lower, 1, [match |-> None, score |-> 0]).score = 0
  THEN Some([input_cost_per_token |-> Some(0)])
  ELSE BestMatchFrom(pricing, lower, 1, [match |-> None, score |-> 0]).match

FuzzyMatch(pricing, lower) ==
  BestMatchFrom(pricing, lower, 1, [match |-> None, score |-> 0]).match

\* getModelPricing on a loaded dataset: None is null, Some(r) a record.
getModelPricing(modelName, pricing, providerPrefixes) ==
  LET direct == DirectMatch(pricing, createMatchingCandidates(modelName, providerPrefixes))
      lower == toLowerCase(modelName)
  IN IF IsSome(direct) THEN direct
     ELSE IF IsSome(SuffixMatch(pricing, lower)) THEN SuffixMatch(pricing, lower)
     ELSE FuzzyMatch(pricing, lower)

(***************************************************************************)
(* Cost calculation.  Rates and costs are integers (a rate is a number of  *)
(* price units per token); a pricing record is                             *)
(*   [input_cost_per_token, output_cost_per_token,                         *)
(*    cache_creation_input_token_cost, cache_read_input_token_cost,        *)
(*    input_cost_per_token_above_200k_tokens, ... , max_input_tokens,      *)
(*    tiered_pricing]                                                      *)
(* with every field None or Some(value); a tier is                         *)
(*   [input_cost_per_token, output_cost_per_token, range,                  *)
(*    cache_read_input_token_cost].                                        *)
(***************************************************************************)
DEFAULT_TIERED_THRESHOLD == 200000

Min(a, b) == IF a < b THEN a ELSE b
Max(a, b) == IF a > b THEN a ELSE b

\* Mutant: the above-200k rate, when there is one, is charged for every token.
calculateTieredCost_AboveRateBelow(totalTokens, basePrice, tieredPrice) ==
  IF ~IsSome(totalTokens) \/ Get(totalTokens) <= 0 THEN 0
  ELSE IF IsSome(tieredPrice) THEN Get(totalTokens) * Get(tieredPrice)
  ELSE IF IsSome(basePrice) THEN Get(totalTokens) * Get(basePrice)
  ELSE 0

\* Mutant: beyond the threshold the whole count is charged at the above-200k rate.
calculateTieredCost_WholeAtAbove(totalTokens, basePrice, tieredPrice) ==
  IF ~IsSome(totalTokens) \/ Get(totalTokens) <= 0 THEN 0
  ELSE IF Get(totalTokens) > DEFAULT_TIERED_THRESHOLD /\ IsSome(tieredPrice)
       THEN Get(totalTokens) * Get(tieredPrice)
       ELSE IF IsSome(basePrice) THEN Get(totalTokens) * Get(basePrice)
       ELSE 0

\* Mutant: the excess over the threshold is charged without the guard and the
\* clamp, so a count below the threshold earns a credit.
calculateTieredCost_Unclamped(totalTokens, basePrice, tieredPrice) ==
  IF ~IsSome(totalTokens) THEN 0
  ELSE IF IsSome(tieredPrice)
       THEN (Get(totalTokens) - DEFAULT_TIERED_THRESHOLD) * Get(tieredPrice)
            + (IF IsSome(basePrice)
               THEN Min(Get(totalTokens), DEFAULT_TIERED_THRESHOLD) * Get(basePrice)
               ELSE 0)
       ELSE IF IsSome(basePrice) THEN Get(totalTokens) * Get(basePrice)
       ELSE 0

\* totalTokens, basePrice and tieredPrice are optional values.
calculateTieredCost(totalTokens, basePrice, tieredPrice) ==
  LET threshold == DEFAULT_TIERED_THRESHOLD
  IN IF ~IsSome(totalTokens) \/ Get(totalTokens) <= 0 THEN 0
     ELSE IF Get(totalTokens) > threshold /\ IsSome(tieredPrice)
          THEN LET tokensBelowThreshold == Min(Get(totalTokens), threshold)
                   tokensAboveThreshold == Max(0, Get(totalTokens) - threshold)
               IN tokensAboveThreshold * Get(tieredPrice)
                  + (IF IsSome(basePrice) THEN tokensBelowThreshold * Get(basePrice) ELSE 0)
          ELSE IF IsSome(basePrice) THEN Get(totalTokens) * Get(basePrice)
          ELSE 0

\* Mutant: the scan does not stop at the first tier that contains the count.
ApplicableTier_LastMatch(totalInputTokens, tieredPricing) ==
  LET hit(i) == /\ totalInputTokens >= tieredPricing[i].range[1]
                /\ totalInputTokens <= tieredPricing[i].range[2]
  IN IF \E i \in 1..Len(tieredPricing) : hit(i)
     THEN tieredPricing[CHOOSE i \in 1..Len(tieredPricing) :
                          hit(i) /\ \A j \in (i + 1)..Len(tieredPricing) : ~hit(j)]
     ELSE tieredPricing[1]

\* The first tier whose range contains the input count, else the first tier.
ApplicableTier(totalInputTokens, tieredPricing) ==
  LET hit(i) == /\ totalInputTokens >= tieredPricing[i].range[1]
                /\ totalInputTokens <= tieredPricing[i].range[2]
  IN IF \E i \in 1..Len(tieredPricing) : hit(i)
     THEN tieredPricing[CHOOSE i \in 1..Len(tieredPricing) :
                          hit(i) /\ \A j \in 1..(i - 1) : ~hit(j)]
     ELSE tieredPricing[1]

\* tieredPricing is the optional tier list of the record.
calculateInputLengthTieredCost(totalInputTokens, outputTokens, cacheReadTokens, baseInputPrice, baseOutputPrice, tieredPricing) ==
  IF totalInputTokens <= 0
  THEN [inputCost |-> 0, outputCost |-> 0, cacheReadCost |-> 0]
  ELSE IF ~IsSome(tieredPricing) \/ Len(Get(tieredPricing)) = 0
  THEN [inputCost |-> IF IsSome(baseInputPrice)
                      THEN totalInputTokens * Get(baseInputPrice) ELSE 0,
        outputCost |-> IF IsSome(baseOutputPrice)
                       THEN outputTokens * Get(baseOutputPrice) ELSE 0,
        cacheReadCost |-> 0]
  ELSE LET applicableTier == ApplicableTier(totalInputTokens, Get(tieredPricing))
       IN [inputCost |-> totalInputTokens * applicableTier.input_cost_per_token,
           outputCost |-> outputTokens * applicableTier.output_cost_per_token,
           cacheReadCost |->
             cacheReadTokens *
               (IF IsSome(applicableTier.cache_read_input_token_cost)
                THEN Get(applicableTier.cache_read_input_token_cost) ELSE 0)]

\* Array.isArray(pricing.tiered_pricing)
hasTieredPricing(pricing) == IsSome(pricing.tiered_pricing)

\* Mutant: the cache-read tokens are charged at the cache-creation rates.
ThresholdCosts_SharedCacheRates(tokens, pricing) ==
  [inputCost |->
     calculateTieredCost(Some(tokens.input_tokens),
                         pricing.input_cost_per_token,
                         pricing.input_cost_per_token_above_200k_tokens),
   outputCost |->
     calculateTieredCost(Some(tokens.output_tokens),
                         pricing.output_cost_per_token,
                         pricing.output_cost_per_token_above_200k_tokens),
   cacheCreationCost |->
     calculateTieredCost(tokens.cache_creation_input_tokens,
                         pricing.cache_creation_input_token_cost,
                         pricing.cache_creation_input_token_cost_above_200k_tokens),
   cacheReadCost |->
     calculateTieredCost(tokens.cache_read_input_tokens,
                         pricing.cache_creation_input_token_cost,
                         pricing.cache_creation_input_token_cost_above_200k_tokens)]

\* The four locals of the threshold branch (lines 386-409).
ThresholdCosts(tokens, pricing) ==
  [inputCost |->
     calculateTieredCost(Some(tokens.input_tokens),
                         pricing.input_cost_per_token,
                         pricing.input_cost_per_token_above_200k_tokens),
   outputCost |->
     calculateTieredCost(Some(tokens.output_tokens),
                         pricing.output_cost_per_token,
                         pricing.output_cost_per_token_above_200k_tokens),
   cacheCreationCost |->
     calculateTieredCost(tokens.cache_creation_input_tokens,
                         pricing.cache_creation_input_token_cost,
                         pricing.cache_creation_input_token_cost_above_200k_tokens),
   cacheReadCost |->
     calculateTieredCost(tokens.cache_read_input_tokens,
                         pricing.cache_read_input_token_cost,
                         pricing.cache_read_input_token_cost_above_200k_tokens)]

\* The total of the four categories under the 200k threshold rule.
ThresholdTotal(tokens, pricing) ==
  LET costs == ThresholdCosts(tokens, pricing)
  IN costs.inputCost + costs.outputCost + costs.cacheCreationCost + costs.cacheReadCost

\* The tiered branch's call of calculateInputLengthTieredCost (lines 361-368).
TieredResult(tokens, pricing) ==
  calculateInputLengthTieredCost(
    tokens.input_tokens,
    tokens.output_tokens,
    IF IsSome(tokens.cache_read_input_tokens)
    THEN Get(tokens.cache_read_input_tokens) ELSE 0,
    pricing.input_cost_per_token,
    pricing.output_cost_per_token,
    pricing.tiered_pricing)

\* Mutant: the cache-creation tokens are charged at the input rate of the tier.
RangeCosts_TierCacheCreation(tokens, pricing) ==
  LET tieredResult == TieredResult(tokens, pricing)
      tiers == Get(pricing.tiered_pricing)
  IN [inputCost |-> tieredResult.inputCost,
      outputCost |-> tieredResult.outputCost,
      cacheCreationCost |->
        IF tiers = <<>> \/ ~IsSome(tokens.cache_creation_input_tokens) THEN 0
        ELSE Get(tokens.cache_creation_input_tokens)
               * ApplicableTier(tokens.input_tokens, tiers).input_cost_per_token,
      cacheReadCost |->
        calculateTieredCost(tokens.cache_read_input_tokens,
                            pricing.cache_read_input_token_cost,
                            pricing.cache_read_input_token_cost_above_200k_tokens)]

\* The four terms of the tiered branch's sum (lines 361-383): the input and
\* output cost of tieredResult, and the two cache costs by the threshold rule.
RangeCosts(tokens, pricing) ==
  LET tieredResult == TieredResult(tokens, pricing)
  IN [inputCost |-> tieredResult.inputCost,
      outputCost |-> tieredResult.outputCost,
      cacheCreationCost |->
        calculateTieredCost(tokens.cache_creation_input_tokens,
                            pricing.cache_creation_input_token_cost,
                            pricing.cache_creation_input_token_cost_above_200k_tokens),
      cacheReadCost |->
        calculateTieredCost(tokens.cache_read_input_tokens,
                            pricing.cache_read_input_token_cost,
                            pricing.cache_read_input_token_cost_above_200k_tokens)]

\* The total when the record carries a tiered_pricing array.
RangeTotal(tokens, pricing) ==
  LET costs == RangeCosts(tokens, pricing)
  IN costs.inputCost + costs.outputCost + costs.cacheCreationCost + costs.cacheReadCost

\* The four terms that calculateCostFromPricing sums, by the branch it takes.
CostTerms(tokens, pricing) ==
  IF hasTieredPricing(pricing)
  THEN RangeCosts(tokens, pricing)
  ELSE ThresholdCosts(tokens, pricing)

calculateCostFromPricing(tokens, pricing) ==
  IF hasTieredPricing(pricing)
  THEN RangeTotal(tokens, pricing)
  ELSE ThresholdTotal(tokens, pricing)

(***************************************************************************)
(* The PricingFetcher instance and its callers.                            *)
(***************************************************************************)
VARIABLES
  cachedPricing,     \* None (null) or Some(dataset)
  calls,             \* per caller: the call it has made and what came of it
  needReload,        \* history: clearCache/dispose returned, no call started since
  everCleared,       \* history: clearCache/dispose has been called
  resolveIn,         \* resolver check: [modelName, pricing, providerPrefixes]
  resolveOut,        \* resolver check: None, or Some(result of getModelPricing)
  costIn,            \* calculator check: [tokens, pricing]
  costOut,           \* calculator check: None, or Some([total, terms])
  loadIn,            \* dataset loader check: None, or Some(source file)
  loadOut,           \* dataset loader check: None, or Some([op, outcome])
  instances,         \* several PricingFetcher instances: per instance its state
  codex,             \* the CodexPricingSource, its fetcher and its caller
  hierIn,            \* session hierarchy check: None, or Some(session list)
  hierOut            \* session hierarchy check: None, or Some(tree built)

vars == <<cachedPricing, calls, needReload,
          everCleared, resolveIn, resolveOut, costIn, costOut,
          loadIn, loadOut, instances, codex, hierIn, hierOut>>

fetcherVars == <<cachedPricing, calls, needReload, everCleared>>
resolveVars == <<resolveIn, resolveOut>>
costVars == <<costIn, costOut>>
loadVars == <<loadIn, loadOut>>
instanceVars == <<instances>>
codexVars == <<codex>>
hierVars == <<hierIn, hierOut>>

DEFAULT_PROVIDER_PREFIXES ==
  << <<"a","n","t","h","r","o","p","i","c","/">>,
     <<"c","l","a","u","d","e","-","3","-","5","-">>,
     <<"c","l","a","u","d","e","-","3","-">>,
     <<"c","l","a","u","d","e","-">>,
     <<"o","p","e","n","a","i","/">>,
     <<"a","z","u","r","e","/">>,
     <<"o","p","e","n","r","o","u","t","e","r","/","o","p","e","n","a","i","/">>,
     <<"z","a","i","/">>,
     <<"s","t","r","e","a","m","l","a","k","e","/">> >>

\* The constructor's options.providerPrefixes ?? DEFAULT_PROVIDER_PREFIXES, for
\* an instance built without the option.
providerPrefixes == DEFAULT_PROVIDER_PREFIXES

NumCallers == 2
Callers == 1..NumCallers

\* A record with a flat input rate and nothing else.
PlainRecord(rate) ==
  [input_cost_per_token |-> Some(rate),
   output_cost_per_token |-> None,
   cache_creation_input_token_cost |-> None,
   cache_read_input_token_cost |-> None,
   max_tokens |-> None,
   max_input_tokens |-> None,
   max_output_tokens |-> None,
   input_cost_per_token_above_200k_tokens |-> None,
   output_cost_per_token_above_200k_tokens |-> None,
   cache_creation_input_token_cost_above_200k_tokens |-> None,
   cache_read_input_token_cost_above_200k_tokens |-> None,
   input_cost_per_token_above_128k_tokens |-> None,
   output_cost_per_token_above_128k_tokens |-> None,
   tiered_pricing |-> None]

Entry(k, r) == [key |-> k, value |-> r]

Glm == <<"g","l","m">>
Kimi == <<"k","i","m","i">>
ZaiGlm == <<"z","a","i","/","g","l","m">>

\* What the configured loader may resolve with, after Object.entries.
LoaderOutputs ==
  { <<Entry(ZaiGlm, [PlainRecord(1) EXCEPT !.max_input_tokens = Some(8)])>>,
    <<Entry(Kimi, PlainRecord(2))>> }

CallNames == {Glm}
CallTokens ==
  { [input_tokens |-> 5, output_tokens |-> 0,
     cache_creation_input_tokens |-> None, cache_read_input_tokens |-> None] }

\* The usages passed along with an absent or empty model name.
NoModelTokens ==
  CallTokens \cup
  { [input_tokens |-> 200001, output_tokens |-> 7,
     cache_creation_input_tokens |-> Some(3), cache_read_input_tokens |-> None] }

\* this.getModelPricing(modelName) against the dataset a call was given, for
\* the names callers pass and the datasets the loader gives: the resolver of
\* lines 154-219 under the instance's prefixes, tabulated.
Resolutions ==
  [name \in CallNames \cup {<<>>} |->
     [data \in LoaderOutputs |-> getModelPricing(name, data, providerPrefixes)]]

ResolveCall(modelName, pricing) == Resolutions[modelName][pricing]

NoResult == [kind |-> "none"]
LoadError == [kind |-> "error", message |-> "Failed to load pricing data"]

\* Line 431: new Error(`Model pricing not found for ${modelName}`).
NotFoundError(modelName) ==
  [kind |-> "error", message |-> "Model pricing not found for", modelName |-> modelName]

\* A call is "loading" while it awaits the loader, "answering" from the moment
\* ensurePricingLoaded has its Map (read from the cache, or just loaded) until
\* the caller's promise settles, then "done".
IdleCall ==
  [pc |-> "idle", op |-> "none", modelName |-> None, tokens |-> None,
   invoked |-> FALSE, pricing |-> None, result |-> NoResult]

\* Mutant: the cache is never consulted, every call loads.
CacheHit_Never == FALSE

\* ensurePricingLoaded, line 120: the cache is answered from when it is set.
CacheHit == cachedPricing # None

\* Mutant: an unknown model is answered with a zero cost.
CostOrNotFound_ZeroFallback(tokens, modelName, pricing) ==
  LET found == ResolveCall(modelName, pricing)
  IN [kind |-> "cost",
      value |-> IF IsSome(found) THEN calculateCostFromPricing(tokens, Get(found)) ELSE 0]

\* calculateCostFromTokens once the dataset is there (the Result.andThen).
CostOrNotFound(tokens, modelName, pricing) ==
  LET found == ResolveCall(modelName, pricing)
  IN IF ~IsSome(found) THEN NotFoundError(modelName)
     ELSE [kind |-> "cost", value |-> calculateCostFromPricing(tokens, Get(found))]

\* getModelContextLimit's map: pricing?.max_input_tokens ?? null.
ContextLimit(found) == IF IsSome(found) THEN Get(found).max_input_tokens ELSE None

\* What an operation makes of the dataset it was given.
Finish(op, modelName, tokens, pricing) ==
  CASE op = "fetchModelPricing" -> [kind |-> "dataset", value |-> pricing]
    [] op = "getModelPricing" ->
         [kind |-> "pricing",
          value |-> ResolveCall(Get(modelName), pricing)]
    [] op = "getModelContextLimit" ->
         [kind |-> "limit",
          value |-> ContextLimit(ResolveCall(Get(modelName), pricing))]
    [] op = "calculateCostFromTokens" ->
         CostOrNotFound(Get(tokens), Get(modelName), pricing)

\* Mutant: only an absent name is answered without the dataset.
NeedsNoDataset_AbsentOnly(op, modelName) ==
  op = "calculateCostFromTokens" /\ modelName = None

\* calculateCostFromTokens, line 423: an absent or empty name needs no dataset.
NeedsNoDataset(op, modelName) ==
  op = "calculateCostFromTokens" /\ (modelName = None \/ modelName = Some(<<>>))

\* A caller starts fetchModelPricing / getModelPricing / getModelContextLimit /
\* calculateCostFromTokens: the synchronous part of the call.  Lines 120-121
\* read the cache: when it is set the call holds that Map and is answered in a
\* later turn; when it is not, line 127 invokes the loader and awaits it.
StartCall(c, op, modelName, tokens) ==
  /\ calls[c].pc \in {"idle", "done"}
  /\ LET started == [IdleCall EXCEPT !.op = op, !.modelName = modelName,
                                     !.tokens = tokens]
     IN calls' = [calls EXCEPT ![c] =
          IF NeedsNoDataset(op, modelName)
          THEN [started EXCEPT !.pc = "done", !.result = [kind |-> "cost", value |-> 0]]
          ELSE IF CacheHit
          THEN [started EXCEPT !.pc = "answering", !.pricing = cachedPricing]
          ELSE [started EXCEPT !.pc = "loading", !.invoked = TRUE]]
  /\ needReload' = FALSE
  /\ UNCHANGED <<cachedPricing, everCleared,
                 resolveVars, costVars, loadVars, instanceVars, codexVars, hierVars>>

FetchModelPricing(c) == StartCall(c, "fetchModelPricing", None, None)

GetModelPricing(c) ==
  \E name \in CallNames : StartCall(c, "getModelPricing", Some(name), None)

GetModelContextLimit(c) ==
  \E name \in CallNames : StartCall(c, "getModelContextLimit", Some(name), None)

CalculateCostFromTokens(c) ==
  \/ \E name \in CallNames, t \in CallTokens :
       StartCall(c, "calculateCostFromTokens", Some(name), Some(t))
  \/ \E name \in {None, Some(<<>>)}, t \in NoModelTokens :
       StartCall(c, "calculateCostFromTokens", name, Some(t))

\* The records callers hand to calculateCostFromPricing.
CallRecords == {PlainRecord(2)}

\* Mutant: the record a cost is computed under is put into the cache.
CalculateCostFromPricing_CachesRecord(c) ==
  /\ calls[c].pc \in {"idle", "done"}
  /\ \E t \in CallTokens, record \in CallRecords :
       /\ calls' = [calls EXCEPT ![c] =
            [IdleCall EXCEPT !.pc = "done", !.op = "calculateCostFromPricing",
               !.tokens = Some(t),
               !.result = [kind |-> "cost",
                           value |-> calculateCostFromPricing(t, record)]]]
       /\ cachedPricing' = Some(<<Entry(Glm, record)>>)
  /\ UNCHANGED <<needReload, everCleared,
                 resolveVars, costVars, loadVars, instanceVars, codexVars, hierVars>>

\* calculateCostFromPricing: synchronous, computed from its arguments alone.
CalculateCostFromPricing(c) ==
  /\ calls[c].pc \in {"idle", "done"}
  /\ \E t \in CallTokens, record \in CallRecords :
       calls' = [calls EXCEPT ![c] =
         [IdleCall EXCEPT !.pc = "done", !.op = "calculateCostFromPricing",
            !.tokens = Some(t),
            !.result = [kind |-> "cost",
                        value |-> calculateCostFromPricing(t, record)]]]
  /\ UNCHANGED <<cachedPricing, needReload, everCleared,
                 resolveVars, costVars, loadVars, instanceVars, codexVars, hierVars>>

\* The loader's promise resolves: the continuation of the await of line 127
\* builds the call's own Map and line 128 stores it in the cache.  The call
\* holds that Map; its caller is answered in a later turn.
LoaderResolve(c) ==
  /\ calls[c].pc = "loading"
  /\ \E data \in LoaderOutputs :
       /\ cachedPricing' = Some(data)
       /\ calls' = [calls EXCEPT ![c].pc = "answering", ![c].pricing = Some(data)]
  /\ UNCHANGED <<needReload, everCleared, resolveVars, costVars, loadVars,
                 instanceVars, codexVars, hierVars>>

\* Mutant: a failed load is remembered as an empty dataset.
LoaderReject_PoisonsCache(c) ==
  /\ calls[c].pc = "loading"
  /\ calls' = [calls EXCEPT ![c].pc = "done", ![c].result = LoadError]
  /\ cachedPricing' = Some(<<>>)
  /\ UNCHANGED <<needReload, everCleared,
                 resolveVars, costVars, loadVars, instanceVars, codexVars, hierVars>>

\* The loader's promise rejects: an error value, the cache untouched.
LoaderReject(c) ==
  /\ calls[c].pc = "loading"
  /\ calls' = [calls EXCEPT ![c].pc = "done", ![c].result = LoadError]
  /\ UNCHANGED <<cachedPricing, needReload, everCleared,
                 resolveVars, costVars, loadVars, instanceVars, codexVars, hierVars>>

\* The turns after ensurePricingLoaded has its Map: Result.inspect (lines
\* 133-135), the callback of Result.map (lines 158-216, line 224) or of
\* Result.andThen (lines 428-436) run on the Map the call holds, whatever the
\* cache is by now, and the caller's promise resolves.
CompleteCall(c) ==
  /\ calls[c].pc = "answering"
  /\ calls' = [calls EXCEPT ![c].pc = "done",
                 ![c].result = Finish(calls[c].op, calls[c].modelName, calls[c].tokens,
                                      Get(calls[c].pricing))]
  /\ UNCHANGED <<cachedPricing, needReload, everCleared,
                 resolveVars, costVars, loadVars, instanceVars, codexVars, hierVars>>

ClearCache ==
  /\ cachedPricing' = None
  /\ needReload' = TRUE
  /\ everCleared' = TRUE
  /\ UNCHANGED <<calls, resolveVars, costVars, loadVars,
                 instanceVars, codexVars, hierVars>>

\* [Symbol.dispose]: this.clearCache()
Dispose == ClearCache

Init ==
  /\ cachedPricing = None
  /\ calls = [c \in Callers |-> IdleCall]
  /\ needReload = FALSE
  /\ everCleared = FALSE
  /\ resolveIn = None
  /\ resolveOut = None
  /\ costIn = None
  /\ costOut = None
  /\ loadIn = None
  /\ loadOut = None
  /\ instances = <<>>
  /\ codex = None
  /\ hierIn = None
  /\ hierOut = None

Next ==
  \/ \E c \in Callers : FetchModelPricing(c)
  \/ \E c \in Callers : GetModelPricing(c)
  \/ \E c \in Callers : GetModelContextLimit(c)
  \/ \E c \in Callers : CalculateCostFromTokens(c)
  \/ \E c \in Callers : CalculateCostFromPricing(c)
  \/ \E c \in Callers : LoaderResolve(c)
  \/ \E c \in Callers : LoaderReject(c)
  \/ \E c \in Callers : CompleteCall(c)
  \/ ClearCache
  \/ Dispose

Spec == Init /\ [][Next]_vars

(***************************************************************************)
(* Properties of the cache and the loader.                                 *)
(***************************************************************************)
InFlight == {c \in Callers : calls[c].pc = "loading"}

\* This step is caller c starting a call that needs the dataset: only StartCall
\* changes the call of a caller that is idle or done.
CallStarts(c) ==
  /\ calls[c].pc \in {"idle", "done"}
  /\ calls'[c] # calls[c]
  /\ ~NeedsNoDataset(calls'[c].op, calls'[c].modelName)
  /\ calls'[c].op # "calculateCostFromPricing"

\* This step is the load of caller c completing successfully.
LoadSucceeds(c) ==
  /\ calls[c].pc = "loading"
  /\ calls'[c].pc = "answering"

\* This step is the call of caller c, which has its dataset, being answered.
CallCompletes(c) ==
  /\ calls[c].pc = "answering"
  /\ calls'[c].pc = "done"

\* C1: at every moment at most one invocation of the loader is in flight.
C1_AtMostOneLoadInFlight == Cardinality(InFlight) <= 1

\* The calls that went to the loader and completed with a dataset.  On an
\* instance whose cache has never been cleared these are the calls that
\* started before the first load to fill the cache had completed.
Racers ==
  {c \in Callers : calls[c].invoked /\ calls[c].pc = "done" /\ IsSome(calls[c].pricing)}

\* C2: the calls that race during the first load complete with the same
\* dataset, and once they are all through that dataset is the cached one.
C2_RacingCallsShareDataset ==
  ~everCleared =>
    /\ \A c1, c2 \in Racers : calls[c1].pricing = calls[c2].pricing
    /\ InFlight = {} => \A c \in Racers : cachedPricing = calls[c].pricing

\* C3: the first call (one that needs the dataset) started after clearCache()
\* or dispose returned invokes the loader again.
C3_CallAfterClearReloads ==
  [][\A c \in Callers : (needReload /\ CallStarts(c)) => calls'[c].invoked]_vars

\* C4: while the cache is set, a call that starts takes the cached dataset
\* without invoking the loader and is answered from that dataset; a successful
\* load sets the cache and only clearCache() / dispose unsets it.
C4_LoadedCacheAnswersCalls ==
  [][/\ \A c \in Callers :
          (IsSome(cachedPricing) /\ CallStarts(c))
            => /\ calls'[c].pc = "answering"
               /\ ~calls'[c].invoked
               /\ calls'[c].pricing = cachedPricing
     /\ \A c \in Callers :
          (CallCompletes(c) /\ ~calls[c].invoked)
            => /\ ~calls'[c].invoked
               /\ calls'[c].pricing = calls[c].pricing
               /\ calls'[c].result = Finish(calls[c].op, calls[c].modelName,
                                            calls[c].tokens, Get(calls[c].pricing))
     /\ (\E c \in Callers : LoadSucceeds(c)) => IsSome(cachedPricing')
     /\ (IsSome(cachedPricing) /\ ~IsSome(cachedPricing')) => (ClearCache \/ Dispose)
    ]_vars

\* C4 witness: a call was answered from the cache that a load had filled.
C4_Witness ==
  \E c \in Callers :
    /\ calls[c].pc = "done"
    /\ ~calls[c].invoked
    /\ IsSome(calls[c].pricing)
    /\ calls[c].pricing = cachedPricing

\* The completed calculateCostFromTokens calls.
CostCalls == {c \in Callers : calls[c].pc = "done" /\ calls[c].op = "calculateCostFromTokens"}

\* What C9 says of one completed call, given the dataset it consulted (None
\* when it consulted none).
CostOutcomeAsClaimed(c) ==
  LET call == calls[c]
      found == IF IsSome(call.pricing)
               THEN getModelPricing(Get(call.modelName), Get(call.pricing), providerPrefixes)
               ELSE None
  IN call.result # LoadError =>
       /\ ~IsSome(found)
            => call.result = NotFoundError(IF IsSome(call.modelName)
                                           THEN Get(call.modelName) ELSE <<>>)
       /\ call.result.kind = "cost"
            => /\ IsSome(found)
               /\ call.result.value = calculateCostFromPricing(Get(call.tokens), Get(found))

\* C9 as stated: for every model id, no record resolved means the not-found
\* error, and a successful cost is the cost under the resolved record.
C9_Original == \A c \in CostCalls : CostOutcomeAsClaimed(c)

\* C9 amended: the same for every present, non-empty model id.
C9_NotFoundIsAnError ==
  \A c \in CostCalls :
    ~NeedsNoDataset(calls[c].op, calls[c].modelName) => CostOutcomeAsClaimed(c)

\* C9 witness: one call ended with the not-found error, another with a cost.
C9_Witness ==
  /\ \E c \in CostCalls : calls[c].result = NotFoundError(Glm)
  /\ \E c \in CostCalls : calls[c].result.kind = "cost" /\ calls[c].result.value > 0

(***************************************************************************)
(* The resolver on its own: getModelPricing applied to every dataset of up *)
(* to MaxKeys entries over KeyPool, for every name of NamePool and every   *)
(* prefix list of PrefixChoices.                                           *)
(***************************************************************************)
MaxKeys == 3

GlmUpper == <<"G","L","M">>

KeyPool ==
  << Glm,                 \* the bare name
     ZaiGlm,              \* under a default prefix
     <<"m","/","g","l","m">>,           \* under a provider that is no default prefix
     GlmUpper,            \* the bare name in another case
     <<"Z","A","I","/","G","L","M","-","É">>,       \* a zai variant, upper case
     <<"m","/","g","l","m","-","x">>,         \* a variant
     <<"m","/","g","l","m","-","a","i","r">>,       \* an air variant
     <<"z","a","i","/","g","l","m","-","a","i","r">>,     \* an air variant under zai
     <<"m","/","g","l","m","/","x">>,         \* the name as a path segment
     <<"g","l">>,              \* a part of the name
     <<"x","y","z">> >>           \* unrelated

NamePool == {Glm, GlmUpper, ZaiGlm, Kimi, <<>>}

PrefixChoices ==
  { <<>>, DEFAULT_PROVIDER_PREFIXES, << <<"m","/">>, ZaiSlash >> }

\* Entry i of a dataset built over KeyPool carries a record of its own.
PoolEntry(i) == Entry(KeyPool[i], PlainRecord(i))

Injective(f) == \A i, j \in DOMAIN f : f[i] = f[j] => i = j

\* Every Map of at most MaxKeys entries over KeyPool, in every insertion order.
Datasets ==
  { [i \in DOMAIN f |-> PoolEntry(f[i])] :
      f \in { g \in UNION {[1..n -> DOMAIN KeyPool] : n \in 0..MaxKeys} : Injective(g) } }

ResolveInit ==
  /\ resolveIn \in { Some([modelName |-> m, pricing |-> d, providerPrefixes |-> p]) :
                       m \in NamePool, d \in Datasets, p \in PrefixChoices }
  /\ resolveOut = None
  /\ cachedPricing = None
  /\ calls = [c \in Callers |-> IdleCall]
  /\ needReload = FALSE
  /\ everCleared = FALSE
  /\ costIn = None
  /\ costOut = None
  /\ loadIn = None
  /\ loadOut = None
  /\ instances = <<>>
  /\ codex = None
  /\ hierIn = None
  /\ hierOut = None

\* getModelPricing's Result.map callback runs on the loaded dataset.
Resolve ==
  /\ IsSome(resolveIn)
  /\ resolveOut = None
  /\ resolveOut' = Some(getModelPricing(Get(resolveIn).modelName, Get(resolveIn).pricing,
                                        Get(resolveIn).providerPrefixes))
  /\ UNCHANGED <<fetcherVars, resolveIn, costVars, loadVars, instanceVars, codexVars, hierVars>>

SpecResolve == ResolveInit /\ [][Resolve]_vars

(***************************************************************************)
(* Properties of the resolver, stated on the keys of the dataset.          *)
(***************************************************************************)
RIn == Get(resolveIn)
RName == RIn.modelName
RData == RIn.pricing
RLower == toLowerCase(RName)
Resolved == IsSome(resolveOut)
RResult == Get(resolveOut)

\* The record stored under the i-th key of the dataset.
RecordAt(i) == Some(RData[i].value)

\* Candidate n of phase 1: the raw name (n = 0), then prefix n + name.
Candidate(n) == IF n = 0 THEN RName ELSE RIn.providerPrefixes[n] \o RName
CandidateHits == {n \in 0..Len(RIn.providerPrefixes) : Candidate(n) \in MapKeys(RData)}
IndexOfKey(k) == CHOOSE i \in 1..Len(RData) : RData[i].key = k
LeastOf(S) == CHOOSE n \in S : \A m \in S : n <= m

\* Keys matching in phase 2, by index.
Phase2Hits ==
  {i \in 1..Len(RData) :
     \/ toLowerCase(RData[i].key) = RLower
     \/ endsWith(toLowerCase(RData[i].key), Slash \o RLower)}

\* The score C7 gives to key k against the lower-cased name m.
ClaimedScore(k, m) ==
  IF includes(k, m)
  THEN IF includes(k, m \o Slash) \/ endsWith(k, Slash \o m) THEN 100
       ELSE IF includes(k, Air) THEN 50
       ELSE IF startsWith(k, ZaiSlash) THEN 95
       ELSE 90
  ELSE IF includes(m, k) THEN 10 ELSE 0

ScoreAt(i) == ClaimedScore(toLowerCase(RData[i].key), RLower)
TopScore == IF RData = <<>> THEN 0
            ELSE LET S == {ScoreAt(i) : i \in 1..Len(RData)}
                 IN CHOOSE x \in S : \A y \in S : y <= x
TopScorers == {i \in 1..Len(RData) : ScoreAt(i) = TopScore}

\* C5: when some phase-1 candidate is a key, the result is the record of the
\* first such candidate in list order (raw name first); a name that is a key
\* resolves to its own record.
C5_Phase1FirstCandidateWins ==
  Resolved =>
    /\ CandidateHits # {}
         => RResult = RecordAt(IndexOfKey(Candidate(LeastOf(CandidateHits))))
    /\ RName \in MapKeys(RData) => RResult = RecordAt(IndexOfKey(RName))

\* C5 witness: a prefixed candidate won although a key matching only in a
\* later phase comes first in the dataset.
C5_Witness ==
  /\ Resolved
  /\ CandidateHits # {}
  /\ 0 \notin CandidateHits
  /\ Len(RIn.providerPrefixes) > 1
  /\ \E i \in Phase2Hits : i < IndexOfKey(Candidate(LeastOf(CandidateHits)))

\* C6: when phase 1 misses and some key matches in phase 2, the result is the
\* record of the first such key in insertion order.
C6_Phase2FirstSuffixMatchWins ==
  (Resolved /\ CandidateHits = {} /\ Phase2Hits # {})
    => RResult = RecordAt(LeastOf(Phase2Hits))

\* C6 witness: the suffix match won over a key that scores in phase 3 and
\* comes earlier, and over a later suffix match.
C6_Witness ==
  /\ Resolved
  /\ CandidateHits = {}
  /\ Cardinality(Phase2Hits) > 1
  /\ \E i \in 1..Len(RData) :
       i < LeastOf(Phase2Hits) /\ i \notin Phase2Hits /\ ScoreAt(i) > 0

\* C7: when phases 1 and 2 miss and some key scores above 0, the result is
\* the record of the first key in insertion order that attains the top score.
C7_Phase3FirstTopScoreWins ==
  (Resolved /\ CandidateHits = {} /\ Phase2Hits = {} /\ TopScore > 0)
    => RResult = RecordAt(LeastOf(TopScorers))

\* C7 witness: two keys tie at the top score and a lower-scoring key precedes them.
C7_Witness ==
  /\ Resolved
  /\ CandidateHits = {}
  /\ Phase2Hits = {}
  /\ Cardinality(TopScorers) > 1
  /\ \E i \in 1..Len(RData) : i < LeastOf(TopScorers) /\ ScoreAt(i) > 0

\* No key contains the lower-cased name and the lower-cased name contains no key.
NoSubstringRelation ==
  \A i \in 1..Len(RData) :
    /\ ~includes(toLowerCase(RData[i].key), RLower)
    /\ ~includes(RLower, toLowerCase(RData[i].key))

\* C8: the result is not-found exactly when all three phases miss, and it is
\* not-found on an empty dataset.
C8_NotFoundExactlyWhenAllPhasesMiss ==
  Resolved =>
    /\ RResult = None <=> (CandidateHits = {} /\ Phase2Hits = {} /\ NoSubstringRelation)
    /\ RData = <<>> => RResult = None

\* C8 witness: not-found on a dataset that has entries.
C8_Witness == Resolved /\ RResult = None /\ Len(RData) > 1

(***************************************************************************)
(* The calculator on its own: calculateCostFromPricing applied to every    *)
(* token usage of TokenUsages and every record of PricingRecords.          *)
(***************************************************************************)
InputCounts == {0, 32000, 32001, 200000, 200001}
OutputCounts == {0, 1, 200001}
CacheCounts == {None, Some(1), Some(200001)}

TokenUsages ==
  { [input_tokens |-> i, output_tokens |-> o,
     cache_creation_input_tokens |-> cc, cache_read_input_tokens |-> cr] :
      i \in InputCounts, o \in OutputCounts, cc \in CacheCounts, cr \in CacheCounts }

BaseRates == {None, Some(2)}
AboveRates == {None, Some(3)}

Tier1 == [input_cost_per_token |-> 4, output_cost_per_token |-> 5,
          range |-> <<1, 32000>>, cache_read_input_token_cost |-> Some(1)]
Tier2 == [input_cost_per_token |-> 6, output_cost_per_token |-> 7,
          range |-> <<32000, 128000>>, cache_read_input_token_cost |-> None]

TierLists ==
  {None, Some(<<>>), Some(<<Tier1, Tier2>>), Some(<<Tier2, Tier1>>), Some(<<Tier2>>)}

PricingRecords ==
  { [input_cost_per_token |-> ib,
     output_cost_per_token |-> ob,
     cache_creation_input_token_cost |-> ccb,
     cache_read_input_token_cost |-> crb,
     max_tokens |-> None,
     max_input_tokens |-> None,
     max_output_tokens |-> None,
     input_cost_per_token_above_200k_tokens |-> ia,
     output_cost_per_token_above_200k_tokens |-> oa,
     cache_creation_input_token_cost_above_200k_tokens |-> cca,
     cache_read_input_token_cost_above_200k_tokens |-> cra,
     input_cost_per_token_above_128k_tokens |-> None,
     output_cost_per_token_above_128k_tokens |-> None,
     tiered_pricing |-> tp] :
      ib \in BaseRates, ob \in BaseRates, ccb \in BaseRates, crb \in BaseRates,
      ia \in AboveRates, oa \in AboveRates, cca \in AboveRates, cra \in AboveRates,
      tp \in TierLists }

CostInit ==
  /\ costIn \in { Some([tokens |-> t, pricing |-> p]) :
                    t \in TokenUsages, p \in PricingRecords }
  /\ costOut = None
  /\ cachedPricing = None
  /\ calls = [c \in Callers |-> IdleCall]
  /\ needReload = FALSE
  /\ everCleared = FALSE
  /\ resolveIn = None
  /\ resolveOut = None
  /\ loadIn = None
  /\ loadOut = None
  /\ instances = <<>>
  /\ codex = None
  /\ hierIn = None
  /\ hierOut = None

Calculate ==
  /\ IsSome(costIn)
  /\ costOut = None
  /\ costOut' = Some([total |-> calculateCostFromPricing(Get(costIn).tokens,
                                                         Get(costIn).pricing),
                      terms |-> CostTerms(Get(costIn).tokens, Get(costIn).pricing)])
  /\ UNCHANGED <<fetcherVars, resolveVars, costIn, loadVars, instanceVars, codexVars, hierVars>>

SpecCost == CostInit /\ [][Calculate]_vars

(***************************************************************************)
(* Properties of the calculator.                                           *)
(***************************************************************************)
CTokens == Get(costIn).tokens
CPricing == Get(costIn).pricing
Calculated == IsSome(costOut)
CCost == Get(costOut).total
CTerms == Get(costOut).terms

OrZero(o) == IF IsSome(o) THEN Get(o) ELSE 0

\* One category under the threshold rule as the spec words it: the base rate
\* up to 200,000 tokens, the above-200k rate (when there is one) beyond.
ClaimedCategoryCost(t, base, above) ==
  IF t <= 0 THEN 0
  ELSE IF t > 200000 /\ IsSome(above)
       THEN 200000 * OrZero(base) + (t - 200000) * Get(above)
       ELSE t * OrZero(base)

ClaimedThresholdTotal(tokens, pricing) ==
  ClaimedCategoryCost(tokens.input_tokens, pricing.input_cost_per_token,
                      pricing.input_cost_per_token_above_200k_tokens)
  + ClaimedCategoryCost(tokens.output_tokens, pricing.output_cost_per_token,
                        pricing.output_cost_per_token_above_200k_tokens)
  + ClaimedCategoryCost(OrZero(tokens.cache_creation_input_tokens),
                        pricing.cache_creation_input_token_cost,
                        pricing.cache_creation_input_token_cost_above_200k_tokens)
  + ClaimedCategoryCost(OrZero(tokens.cache_read_input_tokens),
                        pricing.cache_read_input_token_cost,
                        pricing.cache_read_input_token_cost_above_200k_tokens)

TiersAbsentOrEmpty(pricing) ==
  ~IsSome(pricing.tiered_pricing) \/ Get(pricing.tiered_pricing) = <<>>

\* C10: with the tier list absent or empty, the cost is the threshold-mode total.
C10_NoTiersMeansThresholdMode ==
  (Calculated /\ TiersAbsentOrEmpty(CPricing))
    => CCost = ClaimedThresholdTotal(CTokens, CPricing)

(***************************************************************************)
(* The four token categories of one calculation: the count, the base rate, *)
(* the above-200k rate and the term of the sum, read off the input and the *)
(* outcome of the call.                                                    *)
(***************************************************************************)
Categories == {"input", "output", "cacheCreation", "cacheRead"}

CCount(cat) ==
  CASE cat = "input" -> CTokens.input_tokens
    [] cat = "output" -> CTokens.output_tokens
    [] cat = "cacheCreation" -> OrZero(CTokens.cache_creation_input_tokens)
    [] cat = "cacheRead" -> OrZero(CTokens.cache_read_input_tokens)

CBase(cat) ==
  CASE cat = "input" -> CPricing.input_cost_per_token
    [] cat = "output" -> CPricing.output_cost_per_token
    [] cat = "cacheCreation" -> CPricing.cache_creation_input_token_cost
    [] cat = "cacheRead" -> CPricing.cache_read_input_token_cost

CAbove(cat) ==
  CASE cat = "input" -> CPricing.input_cost_per_token_above_200k_tokens
    [] cat = "output" -> CPricing.output_cost_per_token_above_200k_tokens
    [] cat = "cacheCreation" -> CPricing.cache_creation_input_token_cost_above_200k_tokens
    [] cat = "cacheRead" -> CPricing.cache_read_input_token_cost_above_200k_tokens

CTerm(cat) ==
  CASE cat = "input" -> CTerms.inputCost
    [] cat = "output" -> CTerms.outputCost
    [] cat = "cacheCreation" -> CTerms.cacheCreationCost
    [] cat = "cacheRead" -> CTerms.cacheReadCost

\* The call took the threshold branch: the record carries no tier list.
ThresholdMode == Calculated /\ ~IsSome(CPricing.tiered_pricing)

\* The call took the tiered branch with a tier list that has tiers.
RangeMode ==
  Calculated /\ IsSome(CPricing.tiered_pricing) /\ Get(CPricing.tiered_pricing) # <<>>

\* C11: in threshold mode a category with a count t <= 200,000 costs t x base
\* rate when the base rate is present and t > 0, whatever the above-200k rate,
\* and 0 otherwise.
C11_AtOrBelowThresholdBaseRateOnly ==
  ThresholdMode =>
    \A cat \in Categories :
      CCount(cat) <= 200000 =>
        CTerm(cat) = IF IsSome(CBase(cat)) /\ CCount(cat) > 0
                     THEN CCount(cat) * Get(CBase(cat))
                     ELSE 0

\* C11 witness: exactly 200,000 input tokens charged at the base rate although
\* an above-200k rate is present, and a category without base rate costing 0.
C11_Witness ==
  /\ ThresholdMode
  /\ CCount("input") = 200000
  /\ IsSome(CBase("input")) /\ IsSome(CAbove("input"))
  /\ CTerm("input") = 200000 * Get(CBase("input"))
  /\ CCount("output") = 1 /\ ~IsSome(CBase("output")) /\ IsSome(CAbove("output"))
  /\ CTerm("output") = 0

\* C12: in threshold mode a category with a count t > 200,000 costs
\* 200,000 x (base rate or 0) + (t - 200,000) x above rate when the above-200k
\* rate is present, and t x base rate when it is absent.
C12_AboveThresholdSplitsAtThreshold ==
  ThresholdMode =>
    \A cat \in Categories :
      CCount(cat) > 200000 =>
        CTerm(cat) = IF IsSome(CAbove(cat))
                     THEN 200000 * OrZero(CBase(cat))
                          + (CCount(cat) - 200000) * Get(CAbove(cat))
                     ELSE CCount(cat) * OrZero(CBase(cat))

\* C12 witness: 200,001 input tokens with no base rate charge the one excess
\* token only; 200,001 output tokens with both rates charge one token above;
\* 200,001 cache-read tokens with no above-200k rate are charged at the base rate.
C12_Witness ==
  /\ ThresholdMode
  /\ CCount("input") = 200001
  /\ ~IsSome(CBase("input")) /\ IsSome(CAbove("input"))
  /\ CTerm("input") = Get(CAbove("input"))
  /\ CCount("output") = 200001
  /\ IsSome(CBase("output")) /\ IsSome(CAbove("output"))
  /\ CTerm("output") = 200000 * Get(CBase("output")) + Get(CAbove("output"))
  /\ CCount("cacheRead") = 200001
  /\ IsSome(CBase("cacheRead")) /\ ~IsSome(CAbove("cacheRead"))
  /\ CTerm("cacheRead") = 200001 * Get(CBase("cacheRead"))

\* C13: in threshold mode the total is the sum of the four category terms, each
\* term being the threshold rule on that category's own count and own rates;
\* an absent cache count contributes 0.
C13_ThresholdTotalIsSumOfOwnTerms ==
  ThresholdMode =>
    /\ CCost = CTerm("input") + CTerm("output")
                + CTerm("cacheCreation") + CTerm("cacheRead")
    /\ \A cat \in Categories :
         CTerm(cat) = ClaimedCategoryCost(CCount(cat), CBase(cat), CAbove(cat))
    /\ ~IsSome(CTokens.cache_creation_input_tokens) => CTerm("cacheCreation") = 0
    /\ ~IsSome(CTokens.cache_read_input_tokens) => CTerm("cacheRead") = 0

\* C13 witness: four categories with four different terms; the two cache
\* categories have the same count and differ by their rates alone.
C13_Witness ==
  /\ ThresholdMode
  /\ CCount("cacheCreation") = 200001 /\ CCount("cacheRead") = 200001
  /\ CTerm("cacheCreation") > CTerm("cacheRead")
  /\ CTerm("cacheRead") > CTerm("input")
  /\ CTerm("input") > CTerm("output")
  /\ CTerm("output") > 0

(***************************************************************************)
(* Range-tiered mode.                                                      *)
(***************************************************************************)
CTiers == Get(CPricing.tiered_pricing)

\* The tiers whose range holds the input count, by position in the list.
TierHits ==
  {i \in 1..Len(CTiers) :
     CTiers[i].range[1] <= CTokens.input_tokens /\ CTokens.input_tokens <= CTiers[i].range[2]}

\* The tier C14 selects: the first hit in list order, else the first tier.
ClaimedTier == IF TierHits = {} THEN CTiers[1] ELSE CTiers[LeastOf(TierHits)]

\* C14: in range-tiered mode the input is charged at the rate of the first tier
\* in list order whose inclusive range holds the input count, or of the first
\* tier of the list when no range holds it; so is the output when there is input.
C14_FirstTierInListOrderApplies ==
  RangeMode =>
    /\ CTerm("input") = CTokens.input_tokens * ClaimedTier.input_cost_per_token
    /\ CTokens.input_tokens > 0
         => CTerm("output") = CTokens.output_tokens * ClaimedTier.output_cost_per_token

\* C14 witness: 32000 input tokens lie in the ranges of both tiers and are
\* charged at the rate of the one listed first.
C14_Witness ==
  /\ RangeMode
  /\ CTokens.input_tokens = 32000
  /\ Cardinality(TierHits) = 2
  /\ CTiers[1].input_cost_per_token # CTiers[2].input_cost_per_token
  /\ CTerm("input") = 32000 * CTiers[1].input_cost_per_token
  /\ CTokens.output_tokens > 0

\* C15: in range-tiered mode, for every input count from 0 on, the input cost
\* is input tokens x the selected tier's input rate and the output cost is
\* output tokens x the selected tier's output rate.
C15_TierRatesChargeInputAndOutput ==
  RangeMode =>
    /\ CTerm("input") = CTokens.input_tokens * ClaimedTier.input_cost_per_token
    /\ CTerm("output") = CTokens.output_tokens * ClaimedTier.output_cost_per_token

\* C16: in range-tiered mode the cache-read term of the total is cache-read
\* tokens x the selected tier's cache-read rate, 0 when the tier has none.
C16_TierCacheReadRateCharged ==
  RangeMode =>
    CTerm("cacheRead") = CCount("cacheRead") * OrZero(ClaimedTier.cache_read_input_token_cost)

\* C17: in range-tiered mode the cache-creation term of the total is the
\* threshold rule on the cache-creation count and the record's top-level
\* cache-creation rates, whatever the tiers are and whichever is selected.
C17_RangeModeCacheCreationByThreshold ==
  RangeMode =>
    /\ CTerm("cacheCreation") =
         ClaimedCategoryCost(CCount("cacheCreation"),
                             CPricing.cache_creation_input_token_cost,
                             CPricing.cache_creation_input_token_cost_above_200k_tokens)
    /\ CCost = CTerm("input") + CTerm("output")
                + CTerm("cacheCreation") + CTerm("cacheRead")

\* C17 witness: 200,001 cache-creation tokens split at the threshold under the
\* top-level rates while the second tier of the list is the selected one.
C17_Witness ==
  /\ RangeMode
  /\ CCount("cacheCreation") = 200001
  /\ IsSome(CBase("cacheCreation")) /\ IsSome(CAbove("cacheCreation"))
  /\ CTerm("cacheCreation") = 200000 * Get(CBase("cacheCreation")) + Get(CAbove("cacheCreation"))
  /\ Len(CTiers) = 2
  /\ TierHits = {2}

\* C18: with non-negative counts and non-negative rates the cost is
\* non-negative, in threshold mode and in range-tiered mode.
C18_CostIsNonNegative ==
  Calculated =>
    /\ CCost >= 0
    /\ \A cat \in Categories : CTerm(cat) >= 0

\* C18 witness: a range-tiered calculation with a count below the threshold in
\* a category that carries an above-200k rate, and a positive cost.
C18_Witness ==
  /\ RangeMode
  /\ CCount("cacheCreation") = 1
  /\ IsSome(CAbove("cacheCreation"))
  /\ CTokens.input_tokens > 0
  /\ CCost > 0

(***************************************************************************)
(* loadLocalPricingDataset.  A JSON value is a record with a type:         *)
(*   [type |-> "null"], [type |-> "number", value |-> n],                  *)
(*   [type |-> "string", text |-> s], [type |-> "array", items |-> seq],   *)
(*   [type |-> "object", fields |-> record of JSON values],                *)
(* and a property the object does not have is Absent.  The source file is  *)
(* Unreadable(state) (not found, empty, not JSON, JSON that is no object)   *)
(* or Readable(entries), entries being those of its top-level object as    *)
(* Object.entries lists them.  A call returns or throws: Returned(value),  *)
(* Thrown; for an async function these are the promise resolved, rejected. *)
(***************************************************************************)
Absent == [type |-> "absent"]
JNull == [type |-> "null"]
JNumber(n) == [type |-> "number", value |-> n]
JString(str) == [type |-> "string", text |-> str]
JArray(items) == [type |-> "array", items |-> items]
JObject(fields) == [type |-> "object", fields |-> fields]

\* The file as readFileSync and JSON.parse leave it.
Unreadable(state) == [readable |-> FALSE, state |-> state, entries |-> <<>>]
Readable(entries) == [readable |-> TRUE, state |-> "object", entries |-> entries]

Returned(value) == [threw |-> FALSE, value |-> value]
Thrown == [threw |-> TRUE, value |-> <<>>]

\* The fields of modelPricingSchema that are v.optional(v.number()).
NumberFields ==
  {"input_cost_per_token", "output_cost_per_token",
   "cache_creation_input_token_cost", "cache_read_input_token_cost",
   "max_tokens", "max_input_tokens", "max_output_tokens",
   "input_cost_per_token_above_200k_tokens",
   "output_cost_per_token_above_200k_tokens",
   "cache_creation_input_token_cost_above_200k_tokens",
   "cache_read_input_token_cost_above_200k_tokens",
   "input_cost_per_token_above_128k_tokens",
   "output_cost_per_token_above_128k_tokens"}

\* v.optional(v.number()): undefined or a number; null is neither.
OptionalNumber(x) == x.type \in {"absent", "number"}

\* The output of v.optional(v.number()) on a value it accepts.
NumberOutput(x) == IF x.type = "number" THEN Some(x.value) ELSE None

\* v.tuple([v.number(), v.number()])
RangeTuple(x) ==
  /\ x.type = "array"
  /\ Len(x.items) >= 2
  /\ x.items[1].type = "number"
  /\ x.items[2].type = "number"

\* The object schema of one element of tiered_pricing.
TierSchema(x) ==
  /\ x.type = "object"
  /\ x.fields.input_cost_per_token.type = "number"
  /\ x.fields.output_cost_per_token.type = "number"
  /\ RangeTuple(x.fields.range)
  /\ OptionalNumber(x.fields.cache_read_input_token_cost)

TierOutput(x) ==
  [input_cost_per_token |-> x.fields.input_cost_per_token.value,
   output_cost_per_token |-> x.fields.output_cost_per_token.value,
   range |-> <<x.fields.range.items[1].value, x.fields.range.items[2].value>>,
   cache_read_input_token_cost |-> NumberOutput(x.fields.cache_read_input_token_cost)]

\* v.optional(v.array(v.object({...})))
OptionalTierArray(x) ==
  \/ x.type = "absent"
  \/ /\ x.type = "array"
     /\ \A i \in 1..Len(x.items) : TierSchema(x.items[i])

\* v.safeParse(modelPricingSchema, modelData) on a value whose typeof is
\* 'object': None when it fails, else Some(parsed.output), the fields of the
\* schema and no other.  f is modelData[key] for the keys of the schema: an
\* array has none of them.
safeParse(modelData) ==
  LET f == IF modelData.type = "object" THEN modelData.fields
           ELSE [n \in NumberFields \cup {"tiered_pricing"} |-> Absent]
  IN IF /\ \A n \in NumberFields : OptionalNumber(f[n])
        /\ OptionalTierArray(f.tiered_pricing)
     THEN Some([input_cost_per_token |-> NumberOutput(f.input_cost_per_token),
                output_cost_per_token |-> NumberOutput(f.output_cost_per_token),
                cache_creation_input_token_cost |->
                  NumberOutput(f.cache_creation_input_token_cost),
                cache_read_input_token_cost |-> NumberOutput(f.cache_read_input_token_cost),
                max_tokens |-> NumberOutput(f.max_tokens),
                max_input_tokens |-> NumberOutput(f.max_input_tokens),
                max_output_tokens |-> NumberOutput(f.max_output_tokens),
                input_cost_per_token_above_200k_tokens |->
                  NumberOutput(f.input_cost_per_token_above_200k_tokens),
                output_cost_per_token_above_200k_tokens |->
                  NumberOutput(f.output_cost_per_token_above_200k_tokens),
                cache_creation_input_token_cost_above_200k_tokens |->
                  NumberOutput(f.cache_creation_input_token_cost_above_200k_tokens),
                cache_read_input_token_cost_above_200k_tokens |->
                  NumberOutput(f.cache_read_input_token_cost_above_200k_tokens),
                input_cost_per_token_above_128k_tokens |->
                  NumberOutput(f.input_cost_per_token_above_128k_tokens),
                output_cost_per_token_above_128k_tokens |->
                  NumberOutput(f.output_cost_per_token_above_128k_tokens),
                tiered_pricing |->
                  IF f.tiered_pricing.type = "array"
                  THEN Some([i \in 1..Len(f.tiered_pricing.items) |->
                               TierOutput(f.tiered_pricing.items[i])])
                  ELSE None])
     ELSE None

\* Line 59: modelData === null || modelData === undefined || typeof modelData !== 'object'
\* (typeof is 'object' for an object and for an array).
NotAnObject(modelData) == modelData.type \notin {"object", "array"}

\* The loop of lines 58-69 from entry i on; dataset is what has been kept.
RECURSIVE LoadEntriesFrom(_, _, _)
LoadEntriesFrom(jsonDataset, i, dataset) ==
  IF i > Len(jsonDataset) THEN dataset
  ELSE LET modelName == jsonDataset[i].key
           modelData == jsonDataset[i].value
       IN IF NotAnObject(modelData)
          THEN LoadEntriesFrom(jsonDataset, i + 1, dataset)
          ELSE IF ~IsSome(safeParse(modelData))
          THEN LoadEntriesFrom(jsonDataset, i + 1, dataset)
          ELSE LoadEntriesFrom(jsonDataset, i + 1,
                 Append(dataset, Entry(modelName, Get(safeParse(modelData)))))

\* The try block of lines 25-72: no file at any path or an empty file throws
\* at line 52, text that is no JSON throws in JSON.parse, a JSON null throws in
\* Object.entries, a JSON number has no entries.
LoadTryBlock(source) ==
  IF source.state \in {"missing", "empty"} THEN Thrown
  ELSE IF source.state = "invalid" THEN Thrown
  ELSE IF source.state = "null" THEN Thrown
  ELSE Returned(LoadEntriesFrom(source.entries, 1, <<>>))

\* Mutant: what the try block throws is not caught.
loadLocalPricingDataset_NoCatch(source) == LoadTryBlock(source)

\* loadLocalPricingDataset: what the try block returns, and the empty dataset
\* when it throws (the catch of lines 73-76).
loadLocalPricingDataset(source) ==
  IF LoadTryBlock(source).threw THEN Returned(<<>>)
  ELSE LoadTryBlock(source)

\* prefetchAllPricing: loadLocalPricingDataset, and the empty dataset when
\* that throws; the promise resolves with what is returned.
prefetchAllPricing(source) ==
  IF loadLocalPricingDataset(source).threw THEN Returned(<<>>)
  ELSE loadLocalPricingDataset(source)

(***************************************************************************)
(* The loader on its own: every source file of up to MaxEntries entries    *)
(* whose values are drawn from EntryValues.                                *)
(***************************************************************************)
MaxEntries == 2

\* The key of the i-th entry of a source file.
EntryKeys == <<Glm, Kimi, ZaiGlm, GlmUpper>>

\* What input_cost_per_token may be in the file.
RateValues == {Absent, JNumber(1), JString("1"), JNull}

TierFields(inputRate, rangeValue) ==
  [input_cost_per_token |-> inputRate,
   output_cost_per_token |-> JNumber(5),
   range |-> rangeValue,
   cache_read_input_token_cost |-> Absent]

GoodTier == JObject(TierFields(JNumber(4), JArray(<<JNumber(1), JNumber(32000)>>)))

\* What tiered_pricing may be in the file: absent, a list of well-formed
\* tiers, a list with a tier that has no range, a one-number range or a rate
\* that is a string, and a number in place of the list.
TierValues ==
  {Absent,
   JArray(<<GoodTier>>),
   JArray(<<GoodTier, JObject(TierFields(JNumber(4), Absent))>>),
   JArray(<<JObject(TierFields(JNumber(4), JArray(<<JNumber(1)>>)))>>),
   JArray(<<JObject(TierFields(JString("4"), JArray(<<JNumber(1), JNumber(32000)>>)))>>),
   JNumber(5)}

\* A property the schema does not know, as the dataset files carry.
ProviderValues == {Absent, JString("zai")}

ObjectValue(rate, tiers, provider) ==
  JObject([input_cost_per_token |-> rate,
           output_cost_per_token |-> Absent,
           cache_creation_input_token_cost |-> Absent,
           cache_read_input_token_cost |-> Absent,
           max_tokens |-> Absent,
           max_input_tokens |-> Absent,
           max_output_tokens |-> Absent,
           input_cost_per_token_above_200k_tokens |-> Absent,
           output_cost_per_token_above_200k_tokens |-> Absent,
           cache_creation_input_token_cost_above_200k_tokens |-> Absent,
           cache_read_input_token_cost_above_200k_tokens |-> Absent,
           input_cost_per_token_above_128k_tokens |-> Absent,
           output_cost_per_token_above_128k_tokens |-> Absent,
           tiered_pricing |-> tiers,
           litellm_provider |-> provider])

\* The values of an entry: three whose typeof is not 'object', an array,
\* objects with each kind of rate, objects with each kind of tier list (with
\* and without a property outside the schema), an object with a bad rate and a
\* good tier list, and objects with a limit or a 128k rate that is or is not a
\* number.
EntryValues ==
  LET WithField(n, x) ==
        JObject([ObjectValue(JNumber(1), Absent, Absent).fields EXCEPT ![n] = x])
  IN
  {JNull, JNumber(3), JString("x"), JArray(<<>>)}
  \cup {ObjectValue(r, Absent, Absent) : r \in RateValues}
  \cup {ObjectValue(JNumber(1), t, p) : t \in TierValues, p \in ProviderValues}
  \cup {ObjectValue(JString("1"), JArray(<<GoodTier>>), Absent)}
  \cup {WithField("max_tokens", JString("x")),
        WithField("max_tokens", JNumber(7)),
        WithField("max_output_tokens", JNull),
        WithField("input_cost_per_token_above_128k_tokens", JString("1"))}

\* What the file may be when it holds no JSON object.
UnreadableStates == {"missing", "empty", "invalid", "null", "number"}

\* The source files of up to maxEntries entries.
SourceFiles(maxEntries) ==
  {Unreadable(st) : st \in UnreadableStates}
  \cup UNION { {Readable([i \in 1..n |-> [key |-> EntryKeys[i], value |-> vals[i]]]) :
                  vals \in [1..n -> EntryValues]} : n \in 0..maxEntries }

LoadInit ==
  /\ loadIn \in {Some(src) : src \in SourceFiles(MaxEntries)}
  /\ loadOut = None
  /\ instances = <<>>
  /\ codex = None
  /\ hierIn = None
  /\ hierOut = None
  /\ cachedPricing = None
  /\ calls = [c \in Callers |-> IdleCall]
  /\ needReload = FALSE
  /\ everCleared = FALSE
  /\ resolveIn = None
  /\ resolveOut = None
  /\ costIn = None
  /\ costOut = None

Load ==
  /\ IsSome(loadIn)
  /\ loadOut = None
  /\ loadOut' = Some([op |-> "loadLocalPricingDataset",
                      outcome |-> loadLocalPricingDataset(Get(loadIn))])
  /\ UNCHANGED <<fetcherVars, resolveVars, costVars, loadIn, instanceVars, codexVars, hierVars>>

Prefetch ==
  /\ IsSome(loadIn)
  /\ loadOut = None
  /\ loadOut' = Some([op |-> "prefetchAllPricing",
                      outcome |-> prefetchAllPricing(Get(loadIn))])
  /\ UNCHANGED <<fetcherVars, resolveVars, costVars, loadIn, instanceVars, codexVars, hierVars>>

LoadNext == Load \/ Prefetch

SpecLoad == LoadInit /\ [][LoadNext]_vars

(***************************************************************************)
(* Properties of the loader.                                               *)
(***************************************************************************)
LSource == Get(loadIn).entries
Loaded == IsSome(loadOut)
LOutcome == Get(loadOut).outcome
LDataset == LOutcome.value

\* A tier as C20 wants it: an object with numeric rates, a range of two
\* numbers and, if any, a numeric cache-read rate.
WellFormedTier(t) ==
  /\ t.type = "object"
  /\ \A n \in {"input_cost_per_token", "output_cost_per_token"} : t.fields[n].type = "number"
  /\ t.fields.range.type = "array"
  /\ Len(t.fields.range.items) = 2
  /\ \A i \in 1..2 : t.fields.range.items[i].type = "number"
  /\ t.fields.cache_read_input_token_cost.type \in {"absent", "number"}

\* An entry value as C20 keeps it: an object in which no rate is anything but
\* a number and the tier list, if present, is a list of well-formed tiers.
Validates(x) ==
  /\ x.type = "object"
  /\ ~\E n \in NumberFields : x.fields[n].type \in {"null", "string", "array", "object"}
  /\ x.fields.tiered_pricing.type \in {"absent", "array"}
  /\ x.fields.tiered_pricing.type = "array"
       => \A i \in 1..Len(x.fields.tiered_pricing.items) :
            WellFormedTier(x.fields.tiered_pricing.items[i])

\* The positions of the source entries that validate.
ValidPositions == {i \in 1..Len(LSource) : Validates(LSource[i].value)}

\* The entry of the dataset under the key, as an optional.
Kept(key) == MapGet(LDataset, key)

\* The kept record carries the fields of the source entry and their values.
CarriesFields(record, x) ==
  /\ \A n \in NumberFields :
       record[n] = IF x.fields[n].type = "number" THEN Some(x.fields[n].value) ELSE None
  /\ IF x.fields.tiered_pricing.type = "absent"
     THEN record.tiered_pricing = None
     ELSE /\ IsSome(record.tiered_pricing)
          /\ Len(Get(record.tiered_pricing)) = Len(x.fields.tiered_pricing.items)
          /\ \A i \in 1..Len(x.fields.tiered_pricing.items) :
               LET t == x.fields.tiered_pricing.items[i].fields
                   kept == Get(record.tiered_pricing)[i]
               IN /\ kept.input_cost_per_token = t.input_cost_per_token.value
                  /\ kept.output_cost_per_token = t.output_cost_per_token.value
                  /\ kept.range[1] = t.range.items[1].value
                  /\ kept.range[2] = t.range.items[2].value

\* C20: the keys of the loaded dataset are exactly the keys of the source
\* entries whose values validate, each kept once under its own key with the
\* fields of its source entry; entries that do not validate are dropped and
\* leave the others in place.
C20_InvalidEntriesDroppedOthersKept ==
  (Loaded /\ Get(loadIn).readable) =>
    /\ ~LOutcome.threw
    /\ MapKeys(LDataset) = {LSource[i].key : i \in ValidPositions}
    /\ Len(LDataset) = Cardinality(ValidPositions)
    /\ \A i \in ValidPositions :
         CarriesFields(Get(Kept(LSource[i].key)), LSource[i].value)

\* C21: when the file is not found, is empty, holds no JSON or holds JSON
\* that is no object, loadLocalPricingDataset returns and prefetchAllPricing
\* resolves with the empty dataset; neither throws nor rejects.
C21_UnreadableSourceGivesEmptyDataset ==
  (Loaded /\ ~Get(loadIn).readable) =>
    /\ ~LOutcome.threw
    /\ LDataset = <<>>

\* C21 witness: loadLocalPricingDataset returned the empty dataset for a file
\* that holds no JSON.
C21_Witness ==
  /\ Loaded
  /\ Get(loadIn).state = "invalid"
  /\ Get(loadOut).op = "loadLocalPricingDataset"
  /\ ~LOutcome.threw
  /\ LDataset = <<>>

(***************************************************************************)
(* Frame of the cache.                                                     *)
(***************************************************************************)
ReadOps ==
  {"getModelPricing", "getModelContextLimit", "calculateCostFromPricing",
   "calculateCostFromTokens"}

\* This step is caller c making one of the four calls and, when the call needs
\* no load, completing it.
ReadStarts(c) ==
  /\ calls[c].pc \in {"idle", "done"}
  /\ calls'[c] # calls[c]
  /\ calls'[c].op \in ReadOps

\* C22: a resolution or cost computation leaves the cached dataset as it is;
\* the cached dataset changes only by a load completing, which stores what
\* the loader gave, or by clearCache() / dispose, which unset it.
C22_ReadsLeaveCacheUnchanged ==
  [][/\ \A c \in Callers : ReadStarts(c) => cachedPricing' = cachedPricing
     /\ \A c \in Callers :
          (CallCompletes(c) /\ calls[c].op \in ReadOps)
            => cachedPricing' = cachedPricing
     /\ \A c \in Callers :
          (LoadSucceeds(c) /\ calls[c].op \in ReadOps)
            => /\ cachedPricing' = calls'[c].pricing
               /\ Get(cachedPricing') \in LoaderOutputs
     /\ (cachedPricing' # cachedPricing)
          => \/ \E c \in Callers : LoadSucceeds(c)
             \/ cachedPricing' = None /\ calls' = calls
    ]_vars

\* C22 witness: with the dataset of a completed load cached, a context limit
\* was answered from it and a cost was computed from a record, and the cache
\* still holds that dataset.
C22_Witness ==
  /\ IsSome(cachedPricing)
  /\ \E c1, c2 \in Callers :
       /\ calls[c1].pc = "done"
       /\ calls[c1].op = "getModelContextLimit"
       /\ ~calls[c1].invoked
       /\ calls[c1].pricing = cachedPricing
       /\ calls[c1].result = [kind |-> "limit", value |-> Some(8)]
       /\ calls[c2].pc = "done"
       /\ calls[c2].op = "calculateCostFromPricing"
       /\ calls[c2].result = [kind |-> "cost", value |-> 10]

(***************************************************************************)
(* Several PricingFetcher instances side by side, each with the private    *)
(* cachedPricing field of line 100 and a loader of its own, and callers    *)
(* that call fetchModelPricing, clearCache and dispose on them.  The calls *)
(* outstanding on an instance are counted: those that await its loader,    *)
(* and those that have their Map and are about to be answered.             *)
(***************************************************************************)
NumInstances == 2
Instances == 1..NumInstances

\* The most calls outstanding on one instance at a time.
MaxPending == 2

\* What the loader of instance i resolves with, after Object.entries.
InstanceDataset(i) == <<Entry(Glm, PlainRecord(i))>>

NewInstance ==
  [cachedPricing |-> None, loading |-> 0, answering |-> 0, result |-> NoResult]

\* fetchModelPricing on instance i, the synchronous part: lines 120-121 read
\* the instance's cache; when it is not set line 127 invokes the loader.
InstanceFetchModelPricing(i) ==
  /\ instances[i].loading + instances[i].answering < MaxPending
  /\ instances' = [instances EXCEPT ![i] =
       IF instances[i].cachedPricing # None
       THEN [@ EXCEPT !.answering = @ + 1]
       ELSE [@ EXCEPT !.loading = @ + 1]]
  /\ UNCHANGED <<fetcherVars, resolveVars, costVars, loadVars, codexVars, hierVars>>

\* The loader of instance i resolves for one of the calls that await it:
\* line 128 assigns this.cachedPricing; the call is answered in a later turn.
InstanceLoaderResolve(i) ==
  /\ instances[i].loading > 0
  /\ instances' = [instances EXCEPT ![i] =
       [@ EXCEPT !.cachedPricing = Some(InstanceDataset(i)),
                 !.loading = @ - 1, !.answering = @ + 1]]
  /\ UNCHANGED <<fetcherVars, resolveVars, costVars, loadVars, codexVars, hierVars>>

\* The loader of instance i rejects for one of the calls that await it.
InstanceLoaderReject(i) ==
  /\ instances[i].loading > 0
  /\ instances' = [instances EXCEPT ![i] =
       [@ EXCEPT !.loading = @ - 1, !.result = LoadError]]
  /\ UNCHANGED <<fetcherVars, resolveVars, costVars, loadVars, codexVars, hierVars>>

\* A call on instance i that has its Map is answered (lines 133-135 and the
\* promise of fetchModelPricing resolving).
InstanceCompleteCall(i) ==
  /\ instances[i].answering > 0
  /\ instances' = [instances EXCEPT ![i] =
       [@ EXCEPT !.answering = @ - 1,
                 !.result = [kind |-> "dataset", value |-> InstanceDataset(i)]]]
  /\ UNCHANGED <<fetcherVars, resolveVars, costVars, loadVars, codexVars, hierVars>>

\* Mutant: the cache is one static field that all instances share.
InstanceClearCache_Static(i) ==
  /\ instances' = [j \in Instances |-> [instances[j] EXCEPT !.cachedPricing = None]]
  /\ UNCHANGED <<fetcherVars, resolveVars, costVars, loadVars, codexVars, hierVars>>

\* clearCache on instance i: this.cachedPricing = null.
InstanceClearCache(i) ==
  /\ instances' = [instances EXCEPT ![i] = [@ EXCEPT !.cachedPricing = None]]
  /\ UNCHANGED <<fetcherVars, resolveVars, costVars, loadVars, codexVars, hierVars>>

\* [Symbol.dispose] on instance i.
InstanceDispose(i) == InstanceClearCache(i)

InstancesInit ==
  /\ instances = [i \in Instances |-> NewInstance]
  /\ cachedPricing = None
  /\ calls = [c \in Callers |-> IdleCall]
  /\ needReload = FALSE
  /\ everCleared = FALSE
  /\ resolveIn = None
  /\ resolveOut = None
  /\ costIn = None
  /\ costOut = None
  /\ loadIn = None
  /\ loadOut = None
  /\ codex = None
  /\ hierIn = None
  /\ hierOut = None

InstancesNext ==
  \/ \E i \in Instances : InstanceFetchModelPricing(i)
  \/ \E i \in Instances : InstanceLoaderResolve(i)
  \/ \E i \in Instances : InstanceLoaderReject(i)
  \/ \E i \in Instances : InstanceCompleteCall(i)
  \/ \E i \in Instances : InstanceClearCache(i)
  \/ \E i \in Instances : InstanceDispose(i)

SpecInstances == InstancesInit /\ [][InstancesNext]_vars

\* The calls outstanding on instance j.
Outstanding(inst) == inst.loading + inst.answering

\* This step is a call starting on instance j.
InstanceCallStarts(j) == Outstanding(instances'[j]) = Outstanding(instances[j]) + 1

\* C23: a step on one instance (a call, a load, clearCache, dispose) leaves
\* every other instance's cached dataset and calls as they are, and a call on
\* an instance invokes its loader exactly when that instance's own cache is
\* unset, whatever the other instances hold.
C23_InstancesAreIndependent ==
  [][/\ \A i, j \in Instances :
          (i # j /\ instances'[i] # instances[i]) => instances'[j] = instances[j]
     /\ \A j \in Instances :
          instances'[j].loading > instances[j].loading
            => instances[j].cachedPricing = None /\ InstanceCallStarts(j)
     /\ \A j \in Instances :
          (InstanceCallStarts(j) /\ instances[j].cachedPricing = None)
            => instances'[j].loading = instances[j].loading + 1
     /\ \A j \in Instances :
          (InstanceCallStarts(j) /\ instances[j].cachedPricing # None)
            => /\ instances'[j].loading = instances[j].loading
               /\ instances'[j].cachedPricing = instances[j].cachedPricing
    ]_vars

\* C23 witness: one instance was answered from its dataset, was cleared and
\* is loading again, while another still holds its own dataset, has answered
\* a call from it and is about to answer one more without a load.
C23_Witness ==
  \E i, j \in Instances :
    /\ i # j
    /\ instances[i].cachedPricing = None
    /\ instances[i].loading > 0
    /\ instances[i].result = [kind |-> "dataset", value |-> InstanceDataset(i)]
    /\ instances[j].cachedPricing = Some(InstanceDataset(j))
    /\ instances[j].loading = 0
    /\ instances[j].answering > 0
    /\ instances[j].result = [kind |-> "dataset", value |-> InstanceDataset(j)]

(***************************************************************************)
(* Scoped release.                                                         *)
(***************************************************************************)
\* C24: dispose drops the cached dataset and changes nothing else, as
\* clearCache() does, and the first call that needs the dataset after it
\* returned invokes the loader again.
C24_DisposeDropsCacheAndNextCallReloads ==
  [][/\ Dispose => /\ cachedPricing' = None
                    /\ calls' = calls
     /\ Dispose <=> ClearCache
     /\ \A c \in Callers :
          (everCleared /\ needReload /\ CallStarts(c))
            => /\ calls'[c].pc = "loading"
               /\ calls'[c].invoked
    ]_vars

(***************************************************************************)
(* Resolution with no provider prefixes configured.                        *)
(***************************************************************************)
HasSlash(s) == \E i \in 1..Len(s) : s[i] = "/"
LastSlash(s) == CHOOSE i \in 1..Len(s) : s[i] = "/" /\ \A j \in (i+1)..Len(s) : s[j] # "/"

\* The model of a 'provider/model' id; a bare id is its own model.
ModelOf(s) == IF HasSlash(s) THEN SubSeq(s, LastSlash(s) + 1, Len(s)) ELSE s

\* The keys that store the requested model: the id as requested, its bare
\* model, or the model under some provider, in any letter case.
OwnKeys ==
  {i \in 1..Len(RData) :
     LET key == toLowerCase(RData[i].key)
     IN \/ key = RLower
        \/ key = toLowerCase(ModelOf(RName))
        \/ endsWith(key, Slash \o toLowerCase(ModelOf(RName)))}

BareRequestStoredQualified ==
  /\ RName # <<>>
  /\ ~HasSlash(RName)
  /\ \E k \in MapKeys(RData) : endsWith(k, Slash \o RName)

QualifiedRequestStoredBare ==
  /\ HasSlash(RName)
  /\ ModelOf(RName) \in MapKeys(RData)

\* C25: with no provider prefixes, a bare id resolves to the record of its
\* model when the dataset stores it as 'provider/model', and a
\* 'provider/model' id resolves to the record of its model when the dataset
\* stores it bare, whatever other keys the dataset holds.
C25_ResolvesBareAndQualifiedWithoutPrefixes ==
  (/\ Resolved
   /\ RIn.providerPrefixes = <<>>
   /\ BareRequestStoredQualified \/ QualifiedRequestStoredBare)
    => \E i \in OwnKeys : RResult = RecordAt(i)

(***************************************************************************)
(* A loader that rejects.                                                  *)
(***************************************************************************)
\* This step is the load of caller c failing.
LoadFails(c) ==
  /\ calls[c].pc = "loading"
  /\ calls'[c].pc = "done"
  /\ calls'[c].result = LoadError

\* Some call has ended with the load error.
SomeLoadFailed == \E c \in Callers : calls[c].result = LoadError

\* C26: a load that fails completes its call with the error value 'Failed to
\* load pricing data' and writes nothing to the cache, so an unset cache stays
\* unset; the failure is not remembered: a call that starts while the cache
\* is unset invokes the loader again, and when that load succeeds the call
\* completes with what the operation makes of the loaded dataset.
C26_LoadFailureIsAnErrorValueNotRemembered ==
  [][\A c \in Callers :
       /\ (calls[c].pc = "loading" /\ calls'[c] # calls[c])
            => LoadFails(c) \/ LoadSucceeds(c)
       /\ LoadFails(c) => /\ cachedPricing' = cachedPricing
                          /\ calls'[c].pricing = None
       /\ (SomeLoadFailed /\ cachedPricing = None /\ CallStarts(c))
            => /\ calls'[c].pc = "loading"
               /\ calls'[c].invoked
       /\ (SomeLoadFailed /\ LoadSucceeds(c))
            => /\ IsSome(cachedPricing')
               /\ calls'[c].pricing = cachedPricing'
       /\ (CallCompletes(c) /\ calls[c].invoked)
            => calls'[c].result = Finish(calls[c].op, calls[c].modelName,
                                         calls[c].tokens, Get(calls[c].pricing))
    ]_vars

\* C26 witness: one call ended with the load error and, the cache never
\* cleared, another call went to the loader and completed with the dataset,
\* now cached.
C26_Witness ==
  /\ ~everCleared
  /\ \E c, d \in Callers :
       /\ calls[d].result = LoadError
       /\ calls[c].pc = "done"
       /\ calls[c].invoked
       /\ calls[c].result.kind = "dataset"
       /\ calls[c].pricing = cachedPricing

(***************************************************************************)
(* A cost asked for no model.                                              *)
(***************************************************************************)
\* This step is caller c calling calculateCostFromTokens with an absent or an
\* empty model name.
NoModelCostCall(c) ==
  /\ calls[c].pc \in {"idle", "done"}
  /\ calls'[c] # calls[c]
  /\ calls'[c].op = "calculateCostFromTokens"
  /\ calls'[c].modelName = None \/ calls'[c].modelName = Some(<<>>)

\* C27: calculateCostFromTokens with an absent or empty model name completes
\* at once with the successful cost 0, whatever the token counts, invokes no
\* loader and leaves the cache as it is.
C27_NoModelCostsZeroWithoutLoading ==
  [][\A c \in Callers :
       NoModelCostCall(c)
         => /\ calls'[c].pc = "done"
            /\ calls'[c].result = [kind |-> "cost", value |-> 0]
            /\ ~calls'[c].invoked
            /\ calls'[c].pricing = None
            /\ cachedPricing' = cachedPricing
            /\ \A d \in Callers \ {c} : calls'[d] = calls[d]
    ]_vars

\* C27 witness: with a dataset cached, a call with no name and a large usage
\* and a call with the empty name both ended with cost 0.
C27_Witness ==
  /\ IsSome(cachedPricing)
  /\ \E c, d \in Callers :
       /\ calls[c].pc = "done"
       /\ calls[c].op = "calculateCostFromTokens"
       /\ calls[c].modelName = None
       /\ Get(calls[c].tokens).input_tokens = 200001
       /\ calls[c].result = [kind |-> "cost", value |-> 0]
       /\ calls[d].pc = "done"
       /\ calls[d].op = "calculateCostFromTokens"
       /\ calls[d].modelName = Some(<<>>)
       /\ calls[d].result = [kind |-> "cost", value |-> 0]

(***************************************************************************)
(* CodexPricingSource: a PricingFetcher of its own, built with the codex   *)
(* prefixes, and getPricing on top of its getModelPricing.                 *)
(***************************************************************************)
Gpt5 == <<"g","p","t","-","5">>
Gpt5Codex == <<"g","p","t","-","5","-","c","o","d","e","x">>
O3 == <<"o","3">>
OpenaiSlash == <<"o","p","e","n","a","i","/">>

AzureSlash == <<"a","z","u","r","e","/">>

CODEX_PROVIDER_PREFIXES ==
  << OpenaiSlash,
     AzureSlash,
     <<"o","p","e","n","r","o","u","t","e","r","/","o","p","e","n","a","i","/">> >>

CODEX_MODEL_ALIASES_MAP == << Entry(Gpt5Codex, Gpt5) >>

MILLION == 1000000

\* Mutant: a record without a cache-read rate has a cached-input rate of 0.
toPerMillion_NoFallback(value, fallback) ==
  (IF IsSome(value) THEN Get(value) ELSE 0) * MILLION

\* value ?? fallback ?? 0, times MILLION.
toPerMillion(value, fallback) ==
  (IF IsSome(value) THEN Get(value)
   ELSE IF IsSome(fallback) THEN Get(fallback) ELSE 0) * MILLION

CodexLoadThrown == [kind |-> "thrown", message |-> "Failed to load pricing data"]
CodexNotFoundThrown(model) ==
  [kind |-> "thrown", message |-> "Pricing not found for model", model |-> model]

\* Lines 67-75: the throw for no record, or the per-million rates.
CodexReturn(model, pricing) ==
  IF ~IsSome(pricing) THEN CodexNotFoundThrown(model)
  ELSE [kind |-> "pricing",
        value |-> [inputCostPerMToken |->
                     toPerMillion(Get(pricing).input_cost_per_token, None),
                   cachedInputCostPerMToken |->
                     toPerMillion(Get(pricing).cache_read_input_token_cost,
                                  Get(pricing).input_cost_per_token),
                   outputCostPerMToken |->
                     toPerMillion(Get(pricing).output_cost_per_token, None)]]

\* this.fetcher.getModelPricing(name) once the dataset is there.
CodexLookup(name, data) == getModelPricing(name, data, CODEX_PROVIDER_PREFIXES)

CodexModels == {Gpt5, Gpt5Codex, O3, OpenaiSlash \o Gpt5Codex}

\* What the codex loader may resolve with, after Object.entries.
CodexLoaderOutputs ==
  { << >>,
    << Entry(Gpt5, [PlainRecord(2) EXCEPT !.output_cost_per_token = Some(10),
                                          !.cache_read_input_token_cost = Some(1)]) >>,
    << Entry(OpenaiSlash \o Gpt5Codex, PlainRecord(3)) >>,
    << Entry(OpenaiSlash \o Gpt5, [PlainRecord(4) EXCEPT
                                     !.cache_read_input_token_cost = Some(0)]) >>,
    << Entry(AzureSlash \o Gpt5, [PlainRecord(5) EXCEPT
                                    !.output_cost_per_token = Some(6)]) >>,
    << Entry(O3, [PlainRecord(0) EXCEPT !.input_cost_per_token = None,
                                        !.output_cost_per_token = Some(7)]) >> }

NewCodex ==
  [cachedPricing |-> None, pc |-> "idle", loading |-> FALSE, model |-> <<>>,
   directData |-> None, aliasData |-> None, outcome |-> NoResult]

\* getPricing(model) up to its first await (line 50): the fetcher's
\* getModelPricing(model) reads the cache; when it is set the direct lookup
\* holds that Map and is answered in a later turn, else it awaits the loader.
CodexGetPricing(model) ==
  /\ Get(codex).pc \in {"idle", "done"}
  /\ LET st == [NewCodex EXCEPT !.cachedPricing = Get(codex).cachedPricing,
                                !.model = model, !.pc = "direct"]
     IN codex' = Some(IF IsSome(st.cachedPricing)
                      THEN [st EXCEPT !.directData = st.cachedPricing]
                      ELSE [st EXCEPT !.loading = TRUE])
  /\ UNCHANGED <<fetcherVars, resolveVars, costVars, loadVars, instanceVars, hierVars>>

\* The loader resolves: the fetcher caches the dataset, and the lookup that
\* awaited it holds that Map and is answered in a later turn.
CodexLoaderResolve ==
  /\ Get(codex).loading
  /\ \E data \in CodexLoaderOutputs :
       LET st == [Get(codex) EXCEPT !.cachedPricing = Some(data), !.loading = FALSE]
       IN codex' = Some(IF st.pc = "direct"
                        THEN [st EXCEPT !.directData = Some(data)]
                        ELSE [st EXCEPT !.aliasData = Some(data)])
  /\ UNCHANGED <<fetcherVars, resolveVars, costVars, loadVars, instanceVars, hierVars>>

\* The loader rejects: lines 52 and 61 throw the fetcher's error.
CodexLoaderReject ==
  /\ Get(codex).loading
  /\ codex' = Some([Get(codex) EXCEPT !.loading = FALSE, !.pc = "done",
                                      !.outcome = CodexLoadThrown])
  /\ UNCHANGED <<fetcherVars, resolveVars, costVars, loadVars, instanceVars, hierVars>>

\* The direct lookup is answered from the Map it holds and getPricing goes on
\* (lines 51-75): done when a record was found or the model has no alias;
\* else line 59 calls the fetcher's getModelPricing(alias), which reads the
\* cache as it is now: set, the alias lookup holds that Map and is answered in
\* a later turn; unset, it invokes the loader and awaits it.
CodexDirectLookup ==
  /\ Get(codex).pc = "direct"
  /\ ~Get(codex).loading
  /\ LET st == Get(codex)
         found == CodexLookup(st.model, Get(st.directData))
     IN codex' = Some(
          IF IsSome(found) \/ ~IsSome(MapGet(CODEX_MODEL_ALIASES_MAP, st.model))
          THEN [st EXCEPT !.pc = "done", !.outcome = CodexReturn(st.model, found)]
          ELSE IF IsSome(st.cachedPricing)
          THEN [st EXCEPT !.pc = "alias", !.aliasData = st.cachedPricing]
          ELSE [st EXCEPT !.pc = "alias", !.loading = TRUE])
  /\ UNCHANGED <<fetcherVars, resolveVars, costVars, loadVars, instanceVars, hierVars>>

\* The alias lookup is answered from the Map it holds (lines 60-75).
CodexAliasLookup ==
  /\ Get(codex).pc = "alias"
  /\ ~Get(codex).loading
  /\ LET st == Get(codex)
         alias == Get(MapGet(CODEX_MODEL_ALIASES_MAP, st.model))
     IN codex' = Some([st EXCEPT !.pc = "done",
                         !.outcome = CodexReturn(st.model,
                                       CodexLookup(alias, Get(st.aliasData)))])
  /\ UNCHANGED <<fetcherVars, resolveVars, costVars, loadVars, instanceVars, hierVars>>

\* [Symbol.dispose]: this.fetcher[Symbol.dispose](), which clears its cache.
CodexDispose ==
  /\ codex' = Some([Get(codex) EXCEPT !.cachedPricing = None])
  /\ UNCHANGED <<fetcherVars, resolveVars, costVars, loadVars, instanceVars, hierVars>>

CodexInit ==
  /\ codex = Some(NewCodex)
  /\ cachedPricing = None
  /\ calls = [c \in Callers |-> IdleCall]
  /\ needReload = FALSE
  /\ everCleared = FALSE
  /\ resolveIn = None
  /\ resolveOut = None
  /\ costIn = None
  /\ costOut = None
  /\ loadIn = None
  /\ loadOut = None
  /\ instances = <<>>
  /\ hierIn = None
  /\ hierOut = None

CodexNext ==
  \/ \E model \in CodexModels : CodexGetPricing(model)
  \/ CodexDirectLookup
  \/ CodexAliasLookup
  \/ CodexLoaderResolve
  \/ CodexLoaderReject
  \/ CodexDispose

SpecCodex == CodexInit /\ [][CodexNext]_vars

\* The finished getPricing call and what it went through.
XCall == Get(codex)
XDone == XCall.pc = "done"
XDirect == IF IsSome(XCall.directData)
           THEN getModelPricing(XCall.model, Get(XCall.directData), CODEX_PROVIDER_PREFIXES)
           ELSE None
XAlias == IF IsSome(XCall.aliasData)
          THEN getModelPricing(Gpt5, Get(XCall.aliasData), CODEX_PROVIDER_PREFIXES)
          ELSE None
XRecord == IF IsSome(XDirect) THEN XDirect ELSE XAlias
RateOrZero(rate) == IF IsSome(rate) THEN Get(rate) ELSE 0

\* The per-million rates of a record as the claim states them.
ClaimedCodexRates(r) ==
  [inputCostPerMToken |-> RateOrZero(r.input_cost_per_token) * 1000000,
   cachedInputCostPerMToken |->
     (IF IsSome(r.cache_read_input_token_cost)
      THEN Get(r.cache_read_input_token_cost)
      ELSE RateOrZero(r.input_cost_per_token)) * 1000000,
   outputCostPerMToken |-> RateOrZero(r.output_cost_per_token) * 1000000]

\* C28: getPricing looks the model up directly first and looks the alias
\* (gpt-5-codex -> gpt-5) up only when the direct lookup found nothing; a
\* failed load is rethrown; when neither lookup yields a record it throws
\* 'Pricing not found for model <id>'; otherwise it returns the record's
\* rates per million tokens, the cached-input rate being the input rate when
\* the record has no cache-read rate.
C28_CodexGetPricing ==
  XDone =>
    /\ IsSome(XCall.aliasData)
         => /\ IsSome(XCall.directData)
            /\ ~IsSome(XDirect)
            /\ XCall.model = Gpt5Codex
    /\ XCall.outcome = CodexLoadThrown
         <=> \/ ~IsSome(XCall.directData)
             \/ /\ ~IsSome(XDirect)
                /\ XCall.model = Gpt5Codex
                /\ ~IsSome(XCall.aliasData)
    /\ XCall.outcome # CodexLoadThrown
         => IF IsSome(XRecord)
            THEN XCall.outcome = [kind |-> "pricing", value |-> ClaimedCodexRates(Get(XRecord))]
            ELSE XCall.outcome = [kind |-> "thrown",
                                  message |-> "Pricing not found for model",
                                  model |-> XCall.model]

\* C28 witness: gpt-5-codex was not found directly, the alias gpt-5 was, in a
\* record without a cache-read rate, and the cached-input rate returned is
\* the input rate.
C28_Witness ==
  /\ XDone
  /\ XCall.model = Gpt5Codex
  /\ IsSome(XCall.aliasData)
  /\ ~IsSome(XDirect)
  /\ IsSome(XAlias)
  /\ ~IsSome(Get(XAlias).cache_read_input_token_cost)
  /\ XCall.directData = XCall.aliasData
  /\ XCall.outcome.kind = "pricing"
  /\ XCall.outcome.value.cachedInputCostPerMToken = XCall.outcome.value.inputCostPerMToken
  /\ XCall.outcome.value.inputCostPerMToken > 0

(***************************************************************************)
(* Where resolved records come from.                                       *)
(***************************************************************************)
\* C29: a record returned by getModelPricing is the value stored under some
\* key of the dataset it was given; on an empty dataset every id resolves to
\* null.
C29_ResolvedRecordIsInDataset ==
  Resolved =>
    /\ IsSome(RResult) => \E i \in 1..Len(RData) : RResult = RecordAt(i)
    /\ RData = <<>> => RResult = None

\* C29 witness: a record was returned by the fuzzy phase from a dataset of
\* several entries.
C29_Witness ==
  /\ Resolved
  /\ CandidateHits = {}
  /\ Phase2Hits = {}
  /\ Len(RData) > 1
  /\ \E i \in 2..Len(RData) : RResult = RecordAt(i)

(***************************************************************************)
(* buildSessionHierarchy (opencode).  A session is [id, parentID]; the     *)
(* metadata objects live in sessionMap and are referred to by id, as the   *)
(* children arrays and rootSessions refer to the objects of the Map.       *)
(***************************************************************************)
MaxSessions == 3

\* An id no session of the input carries.
MissingId == 0
SessionIds == 1..MaxSessions

Session(id, parentID) == [id |-> id, parentID |-> parentID]

SessionIdsOf(sessions) == {sessions[i].id : i \in 1..Len(sessions)}

\* First pass: every session gets metadata with no children and depth 0.
FirstPass(sessions) ==
  [id \in SessionIdsOf(sessions) |-> [children |-> <<>>, depth |-> 0]]

\* Second pass, from session i on: [sessionMap, rootSessions] at the end.
RECURSIVE SecondPassFrom(_, _, _, _)
SecondPassFrom(sessions, i, sessionMap, rootSessions) ==
  IF i > Len(sessions) THEN [sessionMap |-> sessionMap, rootSessions |-> rootSessions]
  ELSE LET session == sessions[i]
       IN IF IsSome(session.parentID) /\ Get(session.parentID) \in DOMAIN sessionMap
          THEN LET parent == Get(session.parentID)
                   deepened == [sessionMap EXCEPT
                                  ![session.id].depth = sessionMap[parent].depth + 1]
               IN SecondPassFrom(sessions, i + 1,
                    [deepened EXCEPT ![parent].children = Append(@, session.id)],
                    rootSessions)
          ELSE SecondPassFrom(sessions, i + 1, sessionMap,
                              Append(rootSessions, session.id))

buildSessionHierarchy(sessions) ==
  SecondPassFrom(sessions, 1, FirstPass(sessions), <<>>)

\* The parent of id among the sessions, None when it has none there.
ParentAmong(sessions, id) ==
  LET session == sessions[CHOOSE i \in 1..Len(sessions) : sessions[i].id = id]
  IN IF IsSome(session.parentID) /\ Get(session.parentID) \in SessionIdsOf(sessions)
     THEN session.parentID
     ELSE None

\* The number of ancestors of id, following parents at most fuel times;
\* fuel + 1 when the chain does not end within fuel steps.
RECURSIVE AncestorCount(_, _, _)
AncestorCount(sessions, id, fuel) ==
  IF ~IsSome(ParentAmong(sessions, id)) THEN 0
  ELSE IF fuel = 0 THEN 1
  ELSE 1 + AncestorCount(sessions, Get(ParentAmong(sessions, id)), fuel - 1)

\* Session files name each session once, and no session is its own ancestor.
WellFormedSessions(sessions) ==
  /\ \A i, j \in 1..Len(sessions) : sessions[i].id = sessions[j].id => i = j
  /\ \A i \in 1..Len(sessions) :
       AncestorCount(sessions, sessions[i].id, Len(sessions)) <= Len(sessions)

\* The session lists of n sessions: in every order, every parentID absent,
\* the id of a session or an id that is missing.
SessionListsOf(n) ==
  { sessions \in [1..n -> { Session(id, parentID) :
                              id \in SessionIds,
                              parentID \in {None} \cup {Some(q) : q \in SessionIds \cup {MissingId}} }] :
      WellFormedSessions(sessions) }

HierarchyInit ==
  /\ hierIn \in {Some(sessions) : sessions \in UNION {SessionListsOf(n) : n \in 0..MaxSessions}}
  /\ hierOut = None
  /\ cachedPricing = None
  /\ calls = [c \in Callers |-> IdleCall]
  /\ needReload = FALSE
  /\ everCleared = FALSE
  /\ resolveIn = None
  /\ resolveOut = None
  /\ costIn = None
  /\ costOut = None
  /\ loadIn = None
  /\ loadOut = None
  /\ instances = <<>>
  /\ codex = None

BuildSessionHierarchy ==
  /\ IsSome(hierIn)
  /\ hierOut = None
  /\ hierOut' = Some(buildSessionHierarchy(Get(hierIn)))
  /\ UNCHANGED <<fetcherVars, resolveVars, costVars, loadVars, instanceVars,
                 codexVars, hierIn>>

SpecHierarchy == HierarchyInit /\ [][BuildSessionHierarchy]_vars

HSessions == Get(hierIn)
HBuilt == IsSome(hierOut)
HMap == Get(hierOut).sessionMap
HRoots == Get(hierOut).rootSessions
HIds == SessionIdsOf(HSessions)
InSeq(x, seq) == \E i \in 1..Len(seq) : seq[i] = x
Occurrences(x, seq) == Cardinality({i \in 1..Len(seq) : seq[i] = x})

\* C30: every session whose parentID is the id of a session of the input is
\* a child of that session, once, and of no other, every other session is a
\* root, once, and the depth recorded for a session is the number of its
\* ancestors, in whatever order the input lists the sessions.
C30_HierarchyNestsAndDepthCountsAncestors ==
  HBuilt =>
    \A id \in HIds :
      /\ IF IsSome(ParentAmong(HSessions, id))
         THEN /\ ~InSeq(id, HRoots)
              /\ \A p \in HIds :
                   Occurrences(id, HMap[p].children)
                     = IF p = Get(ParentAmong(HSessions, id)) THEN 1 ELSE 0
         ELSE /\ Occurrences(id, HRoots) = 1
              /\ \A p \in HIds : ~InSeq(id, HMap[p].children)
      /\ HMap[id].depth = AncestorCount(HSessions, id, Len(HSessions))

====
